---------------------------- MODULE Spec2Model ----------------------------
(***************************************************************************)
(* Model of the positional bitmap LIKE index of optimized_like             *)
(* (src/versions/v14-f.c, first translation unit, fallback bitmap):        *)
(* build_optimized_index, optimized_query and the two SQL query entry      *)
(* points, together with the scan verifier match_pattern.                  *)
(*                                                                         *)
(* Strings are sequences of one-character strings; a C pointer into a      *)
(* string is a 0-based offset.  A record id is its 0-based scan position.  *)
(***************************************************************************)
EXTENDS Integers, Sequences, FiniteSets, TLC

(* ------------------------------ bounds --------------------------------- *)

\* Longest value of the source column.
MaxValLen == 3
\* Most rows of the source table.
MaxRecords == 2
\* Longest pattern drawn from the full pattern alphabet.
MaxPatLen == 3

MaxDeletes == 2

MaxAccesses == 3

\* Most RoaringBitmap structs a caller of the bitmap functions holds.
MaxBitmaps == 3

\* #define MAX_POSITIONS 256, scaled down so that values longer than
\* MAX_POSITIONS exist within MaxValLen.
MAX_POSITIONS == 2

\* Bits of one block of the fallback bitmap (value >> 6, value & 63).
BLOCK_BITS == 64

\* Initial capacity of a fallback bitmap (rb->capacity = 16).
INIT_CAPACITY == 16

\* The bytes that occur in values, in increasing byte order (the order of
\* the loops over 0 .. CHAR_RANGE-1).
ByteOrder == <<"a", "b">>

Alphabet == {ByteOrder[i] : i \in 1..Len(ByteOrder)}

PatternBytes == Alphabet \cup {"%", "_"}

\* A NULL column value of the source table.
SQLNULL == <<"NULL">>

RECURSIVE StringsUpTo(_, _)
StringsUpTo(S, n) ==
    IF n = 0 THEN {<<>>}
    ELSE LET shorter == StringsUpTo(S, n - 1)
         IN  shorter \cup {Append(s, c) : s \in shorter, c \in S}

Values == StringsUpTo(Alphabet, MaxValLen)

SourceValues == Values \cup {SQLNULL}

RECURSIVE TablesUpTo(_)
TablesUpTo(n) ==
    IF n = 0 THEN {<<>>}
    ELSE LET shorter == TablesUpTo(n - 1)
         IN  shorter \cup {Append(t, v) : t \in shorter, v \in SourceValues}

Tables == TablesUpTo(MaxRecords)

\* Shapes of the benchmark pattern list (test_patterns), over the model's
\* alphabet, that are longer than MaxPatLen.
BenchmarkPatterns ==
    { <<"%","a","%","b">>, <<"a","%","b","%">>, <<"%","a","b","%">>,
      <<"%","a","_","%">>, <<"_","a","_","%">>, <<"_","_","a","%">>,
      <<"%","a","%","b","%">>, <<"%","a","%","a","%">>,
      <<"%","a","%","_","%">>, <<"_","a","_","b","%">>,
      <<"%","a","b","_","%","a">>, <<"%","a","_","_","b","%","a">>,
      <<"%","a","%","b","%","a","%">>,
      <<"%","a","a","b">>, <<"a","b","a","%">>, <<"%","a","b","a","%">>,
      <<"%","b","_","b","%">> }

Patterns == StringsUpTo(PatternBytes, MaxPatLen) \cup BenchmarkPatterns

(* --------------------------- C string helpers -------------------------- *)

\* The terminating NUL of a C string.
NUL == "NUL"

\* str[i] of a NUL-terminated string, i a 0-based offset.
CharAt(str, i) == IF i < Len(str) THEN str[i + 1] ELSE NUL

Min(S) == CHOOSE x \in S : \A y \in S : x <= y

Max(S) == CHOOSE x \in S : \A y \in S : x >= y

(* ------------------------ fallback block bitmap ------------------------ *)

\* The NULL RoaringBitmap pointer.
NULLBM == [num_blocks |-> -1, capacity |-> -1, blocks |-> <<>>]

\* blocks holds the first num_blocks blocks; the blocks from num_blocks up
\* to capacity are zero in the code and are not stored.
roaring_create == [num_blocks |-> 0, capacity |-> INIT_CAPACITY, blocks |-> <<>>]

EmptyBlocks(n) == [i \in 1..n |-> {}]

roaring_add(rb, value) ==
    LET block == value \div BLOCK_BITS
        bit == value % BLOCK_BITS
        cap == IF block >= rb.capacity THEN block + 1 ELSE rb.capacity
        nb == IF block >= rb.num_blocks THEN block + 1 ELSE rb.num_blocks
        grown == rb.blocks \o EmptyBlocks(nb - rb.num_blocks)
    IN  [num_blocks |-> nb, capacity |-> cap,
         blocks |-> [grown EXCEPT ![block + 1] = @ \cup {bit}]]

\* A variant of roaring_and that keeps the blocks of a beyond min_blocks,
\* as roaring_or does.
roaring_and_keep_tail(a, b) ==
    LET min_blocks == IF a.num_blocks < b.num_blocks THEN a.num_blocks ELSE b.num_blocks
    IN  IF min_blocks = 0 THEN roaring_create
        ELSE [num_blocks |-> a.num_blocks,
              capacity |-> IF INIT_CAPACITY < a.num_blocks THEN a.num_blocks ELSE INIT_CAPACITY,
              blocks |-> [i \in 1..a.num_blocks |->
                            IF i <= min_blocks THEN a.blocks[i] \cap b.blocks[i]
                            ELSE a.blocks[i]]]

roaring_and(a, b) ==
    LET min_blocks == IF a.num_blocks < b.num_blocks THEN a.num_blocks ELSE b.num_blocks
    IN  IF min_blocks = 0 THEN roaring_create
        ELSE [num_blocks |-> min_blocks,
              capacity |-> IF INIT_CAPACITY < min_blocks THEN min_blocks ELSE INIT_CAPACITY,
              blocks |-> [i \in 1..min_blocks |-> a.blocks[i] \cap b.blocks[i]]]

roaring_or(a, b) ==
    LET max_blocks == IF a.num_blocks > b.num_blocks THEN a.num_blocks ELSE b.num_blocks
        min_blocks == IF a.num_blocks < b.num_blocks THEN a.num_blocks ELSE b.num_blocks
    IN  IF max_blocks = 0 THEN roaring_create
        ELSE [num_blocks |-> max_blocks,
              capacity |-> IF INIT_CAPACITY < max_blocks THEN max_blocks ELSE INIT_CAPACITY,
              blocks |-> [i \in 1..max_blocks |->
                            IF i <= min_blocks THEN a.blocks[i] \cup b.blocks[i]
                            ELSE IF a.num_blocks > min_blocks THEN a.blocks[i]
                            ELSE b.blocks[i]]]

roaring_count(rb) ==
    LET RECURSIVE Sum(_)
        Sum(i) == IF i > rb.num_blocks THEN 0
                  ELSE Cardinality(rb.blocks[i]) + Sum(i + 1)
    IN  Sum(1)

roaring_is_empty(rb) == \A i \in 1..rb.num_blocks : rb.blocks[i] = {}

\* A variant of BlockIdsAscending that takes the highest set bit first.
RECURSIVE BlockIdsDescending(_, _)
BlockIdsDescending(base, bits) ==
    IF bits = {} THEN <<>>
    ELSE <<base + Max(bits)>> \o BlockIdsDescending(base, bits \ {Max(bits)})

\* The bits of one block as ids base + bit, lowest first (ctz, then
\* bits &= bits - 1).
RECURSIVE BlockIdsAscending(_, _)
BlockIdsAscending(base, bits) ==
    IF bits = {} THEN <<>>
    ELSE <<base + Min(bits)>> \o BlockIdsAscending(base, bits \ {Min(bits)})

\* The array roaring_to_array fills; the code returns NULL for *count = 0,
\* which is the empty sequence here.
roaring_to_array(rb) ==
    LET RECURSIVE Fill(_)
        Fill(i) ==
            IF i > rb.num_blocks THEN <<>>
            ELSE BlockIdsAscending((i - 1) * BLOCK_BITS, rb.blocks[i]) \o Fill(i + 1)
    IN  IF roaring_count(rb) = 0 THEN <<>> ELSE Fill(1)

roaring_copy(rb) ==
    IF rb.num_blocks > 0
    THEN [num_blocks |-> rb.num_blocks, capacity |-> rb.num_blocks, blocks |-> rb.blocks]
    ELSE roaring_create

\* The members of a bitmap, as a set of ids.
Members(rb) ==
    UNION {{(i - 1) * BLOCK_BITS + bit : bit \in rb.blocks[i]} : i \in 1..rb.num_blocks}

(* --------------------------- index structures -------------------------- *)

\* global_index == NULL.
NULL_INDEX == [null |-> TRUE]

\* First i with entries[i].pos = pos, 0 when there is none (the linear
\* search of get_pos_bitmap / get_neg_bitmap / set_*_bitmap).
RECURSIVE FindEntryFrom(_, _, _)
FindEntryFrom(entries, pos, i) ==
    IF i > Len(entries) THEN 0
    ELSE IF entries[i].pos = pos THEN i
    ELSE FindEntryFrom(entries, pos, i + 1)

FindEntry(entries, pos) == FindEntryFrom(entries, pos, 1)

\* entries[i].bitmap, NULL for i = 0.
EntryBitmap(entries, i) == IF i = 0 THEN NULLBM ELSE entries[i].bitmap

get_pos_bitmap(G, ch, pos) ==
    EntryBitmap(G.pos_idx[ch], FindEntry(G.pos_idx[ch], pos))

get_neg_bitmap(G, ch, neg_offset) ==
    EntryBitmap(G.neg_idx[ch], FindEntry(G.neg_idx[ch], neg_offset))

\* The entries of one CharIndex after set_pos_bitmap / set_neg_bitmap found
\* the entry of pos at i (0: none); the capacity doubling only moves the
\* array.
SetEntryAt(entries, i, pos, bm) ==
    IF i = 0 THEN Append(entries, [pos |-> pos, bitmap |-> bm])
    ELSE [entries EXCEPT ![i].bitmap = bm]

SetEntry(entries, pos, bm) == SetEntryAt(entries, FindEntry(entries, pos), pos, bm)

set_pos_bitmap(G, ch, pos, bm) ==
    [G EXCEPT !.pos_idx[ch] = SetEntry(@, pos, bm)]

set_neg_bitmap(G, ch, neg_offset, bm) ==
    [G EXCEPT !.neg_idx[ch] = SetEntry(@, neg_offset, bm)]

(* ------------------------------ index build ---------------------------- *)

\* The value build_optimized_index stores for a source datum: "" for NULL.
StoredValue(datum) == IF datum = SQLNULL THEN <<>> ELSE datum

\* len after the clamp "if (len > MAX_POSITIONS) len = MAX_POSITIONS".
ClampedLen(str) == IF Len(str) > MAX_POSITIONS THEN MAX_POSITIONS ELSE Len(str)

\* existing_bm after "if (!existing_bm) existing_bm = roaring_create()".
ExistingOrNew(existing_bm) == IF existing_bm = NULLBM THEN roaring_create ELSE existing_bm

\* Forward position index: idx joins the bitmap of (uch, pos).
IndexForward(G, idx, uch, pos) ==
    set_pos_bitmap(G, uch, pos, roaring_add(ExistingOrNew(get_pos_bitmap(G, uch, pos)), idx))

\* Backward (negative) index: idx joins the bitmap of (uch, neg_offset).
IndexBackward(G, idx, uch, neg_offset) ==
    set_neg_bitmap(G, uch, neg_offset,
                   roaring_add(ExistingOrNew(get_neg_bitmap(G, uch, neg_offset)), idx))

\* One iteration of the inner loop, for str[pos] and str[len - 1 - pos].
IndexPosition(G, idx, str, len, pos) ==
    IndexBackward(IndexForward(G, idx, str[pos + 1], pos),
                  idx, str[(len - 1 - pos) + 1], -(1 + pos))

RECURSIVE IndexPositions(_, _, _, _, _)
IndexPositions(G, idx, str, len, pos) ==
    IF pos >= len THEN G
    ELSE IndexPositions(IndexPosition(G, idx, str, len, pos), idx, str, len, pos + 1)

\* One iteration of the loop over the rows: store the value, update max_len,
\* index its first len bytes.
IndexRecord(G, idx, datum) ==
    IF datum = SQLNULL
    THEN [G EXCEPT !.data = Append(@, StoredValue(datum))]
    ELSE IndexPositions([G EXCEPT !.data = Append(@, StoredValue(datum)),
                                  !.max_len = IF ClampedLen(datum) > @
                                              THEN ClampedLen(datum) ELSE @],
                        idx, datum, ClampedLen(datum), 0)

RECURSIVE IndexRecords(_, _, _)
IndexRecords(G, tbl, idx) ==
    IF idx >= Len(tbl) THEN G
    ELSE IndexRecords(IndexRecord(G, idx, tbl[idx + 1]), tbl, idx + 1)

\* char_cache[ch]: the OR of all forward bitmaps of ch, NULL when ch has no
\* entry.
BuildCharCache(entries) ==
    LET RECURSIVE Union(_, _)
        Union(new_bm, i) ==
            IF i > Len(entries) THEN new_bm
            ELSE Union(roaring_or(new_bm, entries[i].bitmap), i + 1)
    IN  IF Len(entries) = 0 THEN NULLBM
        ELSE Union(roaring_copy(entries[1].bitmap), 2)

\* The loop that fills the length index: a record whose stored length is
\* >= max_length is skipped.  length_bitmaps[len] is bitmaps[len + 1].
RECURSIVE FillLengthBitmaps(_, _, _, _)
FillLengthBitmaps(bitmaps, data, max_length, idx) ==
    IF idx >= Len(data) THEN bitmaps
    ELSE IF Len(data[idx + 1]) >= max_length
         THEN FillLengthBitmaps(bitmaps, data, max_length, idx + 1)
         ELSE FillLengthBitmaps(
                  [bitmaps EXCEPT ![Len(data[idx + 1]) + 1] = roaring_add(ExistingOrNew(@), idx)],
                  data, max_length, idx + 1)

\* The length index: max_length = max_len + 1 slots, all NULL at first.
BuildLengthIndex(data, max_len) ==
    [max_length |-> max_len + 1,
     length_bitmaps |->
         FillLengthBitmaps([i \in 1..(max_len + 1) |-> NULLBM], data, max_len + 1, 0)]

\* The RoaringIndex right after its initialisation.
EmptyIndex(num_records) ==
    [pos_idx |-> [ch \in Alphabet |-> <<>>],
     neg_idx |-> [ch \in Alphabet |-> <<>>],
     char_cache |-> [ch \in Alphabet |-> NULLBM],
     length_idx |-> [max_length |-> 0, length_bitmaps |-> <<>>],
     data |-> <<>>,
     num_records |-> num_records,
     max_len |-> 0]

\* "Build character-anywhere cache".
WithCharCache(G) ==
    [G EXCEPT !.char_cache = [ch \in Alphabet |-> BuildCharCache(G.pos_idx[ch])]]

\* "Build length index".
WithLengthIndex(G) ==
    [G EXCEPT !.length_idx = BuildLengthIndex(G.data, G.max_len)]

\* The RoaringIndex build_optimized_index leaves in global_index for the
\* rows tbl of the source table.
BuiltIndex(tbl) ==
    WithLengthIndex(WithCharCache(IndexRecords(EmptyIndex(Len(tbl)), tbl, 0)))

(* ---------------------------- pattern analysis ------------------------- *)

\* Number of non-'%' bytes of a pattern.
pattern_length_with_underscores(pattern) ==
    Cardinality({i \in 1..Len(pattern) : pattern[i] # "%"})

\* A variant of WithSlice that keeps an empty piece too.
WithSliceOrEmpty(slices, pattern, start, p) ==
    Append(slices, SubSeq(pattern, start + 1, p))

\* slices after the piece start .. p (p excluded) was cut off: kept when it
\* is not empty.
WithSlice(slices, pattern, start, p) ==
    IF p - start > 0 THEN Append(slices, SubSeq(pattern, start + 1, p)) ELSE slices

\* The slices of analyze_pattern: scan p over the pattern and cut at every
\* '%' and at the end.
RECURSIVE ScanSlices(_, _, _, _)
ScanSlices(pattern, p, start, slices) ==
    IF p >= Len(pattern) THEN WithSlice(slices, pattern, start, p)
    ELSE IF pattern[p + 1] = "%"
         THEN ScanSlices(pattern, p + 1, p + 1, WithSlice(slices, pattern, start, p))
         ELSE ScanSlices(pattern, p + 1, start, slices)

PatternInfo(pattern, slices) ==
    [slices |-> slices,
     slice_count |-> Len(slices),
     starts_with_percent |-> (Len(pattern) > 0 /\ pattern[1] = "%"),
     ends_with_percent |-> (Len(pattern) > 0 /\ pattern[Len(pattern)] = "%")]

analyze_pattern(pattern) == PatternInfo(pattern, ScanSlices(pattern, 0, 0, <<>>))

(* --------------------------- core matching ----------------------------- *)

\* A variant of LengthBitmap that clamps len to the last slot of the length
\* index instead of answering NULL beyond it.
LengthBitmapClamped(G, len) ==
    IF G.length_idx.max_length = 0 THEN NULLBM
    ELSE G.length_idx.length_bitmaps[Min({len, G.length_idx.max_length - 1}) + 1]

\* length_bitmaps[len] when len is a slot of the length index and the slot
\* is set, NULL otherwise (the test "len < max_length && length_bitmaps[len]").
LengthBitmap(G, len) ==
    IF len < G.length_idx.max_length /\ G.length_idx.length_bitmaps[len + 1] # NULLBM
    THEN G.length_idx.length_bitmaps[len + 1]
    ELSE NULLBM

\* result after one iteration of a loop that ORs bm, when it is not NULL,
\* into result.
OrIfPresent(result, bm) == IF bm = NULLBM THEN result ELSE roaring_or(result, bm)

\* A variant of get_length_range whose loop starts at length 0.
get_length_range_from_zero(G, min_len, max_len_arg) ==
    LET max_len == IF max_len_arg < 0 \/ max_len_arg > G.length_idx.max_length
                   THEN G.length_idx.max_length - 1 ELSE max_len_arg
        RECURSIVE Loop(_, _)
        Loop(result, len) ==
            IF len > max_len THEN result
            ELSE Loop(OrIfPresent(result, LengthBitmap(G, len)), len + 1)
    IN  Loop(roaring_create, 0)

\* get_length_range(min_len, max_len): the OR of the length bitmaps of
\* min_len .. max_len.
get_length_range(G, min_len, max_len_arg) ==
    LET max_len == IF max_len_arg < 0 \/ max_len_arg > G.length_idx.max_length
                   THEN G.length_idx.max_length - 1 ELSE max_len_arg
        RECURSIVE Loop(_, _)
        Loop(result, len) ==
            IF len > max_len THEN result
            ELSE Loop(OrIfPresent(result, LengthBitmap(G, len)), len + 1)
    IN  Loop(roaring_create, min_len)

\* any_char_bm after one byte ch of the loop over 0 .. CHAR_RANGE-1.
AnyCharStep(any_char_bm, char_bm) ==
    IF char_bm = NULLBM THEN any_char_bm
    ELSE IF any_char_bm = NULLBM THEN roaring_copy(char_bm)
    ELSE roaring_or(any_char_bm, char_bm)

\* any_char_bm of match_at_pos: the OR over all bytes of the forward
\* bitmaps at pos, NULL when no byte has one.
AnyCharAtPos(G, pos) ==
    LET RECURSIVE Loop(_, _)
        Loop(any_char_bm, k) ==
            IF k > Len(ByteOrder) THEN any_char_bm
            ELSE Loop(AnyCharStep(any_char_bm, get_pos_bitmap(G, ByteOrder[k], pos)), k + 1)
    IN  Loop(NULLBM, 1)

\* any_char_bm of match_at_neg_pos.
AnyCharAtNegPos(G, pos) ==
    LET RECURSIVE Loop(_, _)
        Loop(any_char_bm, k) ==
            IF k > Len(ByteOrder) THEN any_char_bm
            ELSE Loop(AnyCharStep(any_char_bm, get_neg_bitmap(G, ByteOrder[k], pos)), k + 1)
    IN  Loop(NULLBM, 1)

\* The end of an AND step: return early when temp is empty.
AndStep(temp) == [done |-> roaring_is_empty(temp), result |-> temp]

\* One step of the loops of match_at_pos and match_at_neg_pos, given the
\* bitmap bm found for the pattern byte (any_char_bm or char_bm, NULL when
\* absent): [done, result].  done means the function returns result now.
MatchStep(result, bm, is_underscore) ==
    IF bm = NULLBM
    THEN [done |-> TRUE, result |-> roaring_create]
    ELSE IF result = NULLBM
         THEN [done |-> FALSE,
               result |-> IF is_underscore THEN bm ELSE roaring_copy(bm)]
         ELSE AndStep(roaring_and(result, bm))

\* The length filter both functions start with: NULL when it is skipped.
RequiredLengthFilter(G, required_length) ==
    IF required_length > 0 /\ required_length <= G.length_idx.max_length
    THEN get_length_range(G, required_length, -1)
    ELSE NULLBM

\* "return result ? result : roaring_create()".
ResultOrNew(result) == IF result # NULLBM THEN result ELSE roaring_create

\* The bitmap the loop of match_at_pos looks up for pattern byte ch at pos.
PosBitmapFor(G, ch, pos) ==
    IF ch = "_" THEN AnyCharAtPos(G, pos) ELSE get_pos_bitmap(G, ch, pos)

NegBitmapFor(G, ch, pos) ==
    IF ch = "_" THEN AnyCharAtNegPos(G, pos) ELSE get_neg_bitmap(G, ch, pos)

\* The loop of match_at_pos from pattern byte i on, result being the
\* bitmap so far (NULL: none yet).
RECURSIVE MatchAtPosLoop(_, _, _, _, _)
MatchAtPosStep(G, pattern, step, i, pos) ==
    IF step.done THEN step.result
    ELSE MatchAtPosLoop(G, pattern, step.result, i + 1, pos + 1)

MatchAtPosLoop(G, pattern, result, i, pos) ==
    IF i >= Len(pattern) THEN ResultOrNew(result)
    ELSE MatchAtPosStep(G, pattern,
                        MatchStep(result, PosBitmapFor(G, pattern[i + 1], pos),
                                  pattern[i + 1] = "_"),
                        i, pos)

\* match_at_pos after the length filter was computed.
MatchAtPosFiltered(G, pattern, start_pos, filter) ==
    IF filter # NULLBM /\ roaring_is_empty(filter) THEN filter
    ELSE MatchAtPosLoop(G, pattern, filter, 0, start_pos)

match_at_pos(G, pattern, start_pos) ==
    MatchAtPosFiltered(G, pattern, start_pos,
                       RequiredLengthFilter(G, start_pos + Len(pattern)))

\* The loop of match_at_neg_pos from pattern byte i down; pos = -(plen - i).
RECURSIVE MatchAtNegPosLoop(_, _, _, _)
MatchAtNegPosStep(G, pattern, step, i) ==
    IF step.done THEN step.result
    ELSE MatchAtNegPosLoop(G, pattern, step.result, i - 1)

MatchAtNegPosLoop(G, pattern, result, i) ==
    IF i < 0 THEN ResultOrNew(result)
    ELSE MatchAtNegPosStep(G, pattern,
                           MatchStep(result,
                                     NegBitmapFor(G, pattern[i + 1], -(Len(pattern) - i)),
                                     pattern[i + 1] = "_"),
                           i)

MatchAtNegPosFiltered(G, pattern, filter) ==
    IF filter # NULLBM /\ roaring_is_empty(filter) THEN filter
    ELSE MatchAtNegPosLoop(G, pattern, filter, Len(pattern) - 1)

match_at_neg_pos(G, pattern, end_offset) ==
    MatchAtNegPosFiltered(G, pattern, RequiredLengthFilter(G, Len(pattern)))

\* get_char_candidates: the AND of char_cache[ch] over the distinct bytes
\* of pattern other than '_' and '%'; NULL when there is no such byte.
RECURSIVE CharCandidatesLoop(_, _, _, _, _)
CharCandidatesAnd(G, pattern, temp, seen, i) ==
    IF roaring_is_empty(temp) THEN temp
    ELSE CharCandidatesLoop(G, pattern, temp, seen, i)

CharCandidatesLoop(G, pattern, result, seen, i) ==
    IF i >= Len(pattern) THEN result
    ELSE IF pattern[i + 1] # "_" /\ pattern[i + 1] # "%" /\ pattern[i + 1] \notin seen
         THEN IF G.char_cache[pattern[i + 1]] # NULLBM
              THEN IF result = NULLBM
                   THEN CharCandidatesLoop(G, pattern, roaring_copy(G.char_cache[pattern[i + 1]]),
                                           seen \cup {pattern[i + 1]}, i + 1)
                   ELSE CharCandidatesAnd(G, pattern,
                                          roaring_and(result, G.char_cache[pattern[i + 1]]),
                                          seen \cup {pattern[i + 1]}, i + 1)
              ELSE roaring_create
         ELSE CharCandidatesLoop(G, pattern, result, seen, i + 1)

get_char_candidates(G, pattern) == CharCandidatesLoop(G, pattern, NULLBM, {}, 0)

\* matches_at_position(str + s, pattern).
matches_at_position(str, s, pattern) ==
    LET RECURSIVE Loop(_, _)
        Loop(si, pi) ==
            IF pi >= Len(pattern) THEN TRUE
            ELSE IF pattern[pi + 1] = "_"
                 THEN IF CharAt(str, si) = NUL THEN FALSE ELSE Loop(si + 1, pi + 1)
                 ELSE IF CharAt(str, si) = pattern[pi + 1] THEN Loop(si + 1, pi + 1)
                 ELSE FALSE
    IN  Loop(s, 0)

\* find_pattern(str + from, pattern): offset of the first match, -1 for NULL.
find_pattern(str, from, pattern) ==
    LET RECURSIVE Loop(_)
        Loop(s) ==
            IF CharAt(str, s) = NUL THEN -1
            ELSE IF matches_at_position(str, s, pattern) THEN s
            ELSE Loop(s + 1)
    IN  Loop(from)

contains_substring(str, pattern) == find_pattern(str, 0, pattern) # -1

\* The while loop of verify_multislice_pattern that moves search_start past
\* the slice found at match_pos.
AdvancePast(str, match_pos, slice) ==
    LET RECURSIVE Loop(_, _)
        Loop(search_start, slice_ptr) ==
            IF CharAt(str, search_start) # NUL /\ slice_ptr < Len(slice)
            THEN IF slice[slice_ptr + 1] = "_" \/ CharAt(str, search_start) = slice[slice_ptr + 1]
                 THEN Loop(search_start + 1, slice_ptr + 1)
                 ELSE search_start
            ELSE search_start
    IN  Loop(match_pos, 0)

\* all_found of verify_multislice_pattern for one candidate string: the
\* loop over the slices from slice j on.
RECURSIVE SlicesFoundFrom(_, _, _, _)
SliceFoundAt(str, slices, match_pos, j) ==
    IF match_pos = -1 THEN FALSE
    ELSE SlicesFoundFrom(str, slices, AdvancePast(str, match_pos, slices[j + 1]), j + 1)

SlicesFoundFrom(str, slices, search_start, j) ==
    IF j >= Len(slices) THEN TRUE
    ELSE SliceFoundAt(str, slices, find_pattern(str, search_start, slices[j + 1]), j)

AllSlicesFound(str, slices) == SlicesFoundFrom(str, slices, 0, 0)

\* The loop of verify_multislice_pattern over the candidate array from
\* entry i on.
RECURSIVE VerifyLoop(_, _, _, _, _)
VerifyLoop(G, indices, info, verified, i) ==
    IF i > Len(indices) THEN verified
    ELSE IF AllSlicesFound(G.data[indices[i] + 1], info.slices)
         THEN VerifyLoop(G, indices, info, roaring_add(verified, indices[i]), i + 1)
         ELSE VerifyLoop(G, indices, info, verified, i + 1)

verify_multislice_pattern(G, candidates, info) ==
    VerifyLoop(G, roaring_to_array(candidates), info, roaring_create, 1)

(* ------------------------- main query function ------------------------ *)

\* What a call of optimized_query does: it returns the array indices
\* (result_count is its length; a NULL array is the empty sequence), or the
\* backend dies of a NULL dereference.
Returned(indices) == [status |-> "ok", indices |-> indices]

Segfault == [status |-> "segv", indices |-> <<>>]

\* indices[i] = i for i < num_records.
AllRecords(G) == [i \in 1..G.num_records |-> i - 1]

\* The scan for only_wildcards: stops at the first byte that is neither
\* '_' nor '%'.
ScanWildcards(pattern) ==
    LET RECURSIVE Loop(_, _, _)
        Loop(i, underscore_count, has_percent) ==
            IF i >= Len(pattern)
            THEN [only_wildcards |-> TRUE, underscore_count |-> underscore_count,
                  has_percent |-> has_percent]
            ELSE IF pattern[i + 1] = "_" THEN Loop(i + 1, underscore_count + 1, has_percent)
            ELSE IF pattern[i + 1] = "%" THEN Loop(i + 1, underscore_count, TRUE)
            ELSE [only_wildcards |-> FALSE, underscore_count |-> underscore_count,
                  has_percent |-> has_percent]
    IN  Loop(0, 0, FALSE)

\* "Pure underscores": a copy of the length bitmap lbm, or a new bitmap when
\* there is none.
CopyOrNew(lbm) == IF lbm # NULLBM THEN roaring_copy(lbm) ELSE roaring_create

\* FAST PATH: the pattern contains only wildcards.
WildcardQuery(G, underscore_count, has_percent) ==
    IF ~has_percent
    THEN Returned(roaring_to_array(CopyOrNew(LengthBitmap(G, underscore_count))))
    ELSE Returned(roaring_to_array(get_length_range(G, underscore_count, -1)))

\* A variant of AndExactLength that leaves the exact-length AND out.
AndExactLengthSkipped(result, lbm) == result

\* "For exact match, string length must equal pattern length".
AndExactLength(result, lbm) ==
    IF lbm # NULLBM THEN roaring_and(result, lbm) ELSE roaring_create

\* Case: pattern (exact match).
ExactResult(G, slice) ==
    AndExactLength(match_at_pos(G, slice, 0),
                   LengthBitmap(G, pattern_length_with_underscores(slice)))

\* Case: pattern%.
PrefixResult(G, slice, candidates) == roaring_and(match_at_pos(G, slice, 0), candidates)

\* Case: %pattern.
SuffixResult(G, slice, candidates) == roaring_and(match_at_neg_pos(G, slice, 0), candidates)

\* Case: %pattern%, the loop over cand_indices from entry i on.
RECURSIVE ContainsLoop(_, _, _, _, _)
ContainsLoop(G, cand_indices, slice, result, i) ==
    IF i > Len(cand_indices) THEN result
    ELSE IF contains_substring(G.data[cand_indices[i] + 1], slice)
         THEN ContainsLoop(G, cand_indices, slice, roaring_add(result, cand_indices[i]), i + 1)
         ELSE ContainsLoop(G, cand_indices, slice, result, i + 1)

\* Case: %pattern%.
ContainsResult(G, slice, candidates) ==
    IF candidates # NULLBM
    THEN ContainsLoop(G, roaring_to_array(candidates), slice, roaring_create, 1)
    ELSE roaring_create

\* The single-slice branch once candidates = get_char_candidates(slice) is
\* known.  The slice holds a byte that is no wildcard, so candidates is not
\* NULL.
SingleSliceWith(G, info, slice, candidates) ==
    IF roaring_is_empty(candidates) THEN Returned(<<>>)
    ELSE IF ~info.starts_with_percent /\ ~info.ends_with_percent
         THEN Returned(roaring_to_array(ExactResult(G, slice)))
    ELSE IF ~info.starts_with_percent /\ info.ends_with_percent
         THEN Returned(roaring_to_array(PrefixResult(G, slice, candidates)))
    ELSE IF info.starts_with_percent /\ ~info.ends_with_percent
         THEN Returned(roaring_to_array(SuffixResult(G, slice, candidates)))
    ELSE Returned(roaring_to_array(ContainsResult(G, slice, candidates)))

SingleSliceQuery(G, info) ==
    SingleSliceWith(G, info, info.slices[1], get_char_candidates(G, info.slices[1]))

\* min_len of the multi-slice branch.
SlicesMinLen(info) ==
    LET RECURSIVE Sum(_)
        Sum(i) == IF i > info.slice_count THEN 0
                  ELSE pattern_length_with_underscores(info.slices[i]) + Sum(i + 1)
    IN  Sum(1)

\* The candidate loop of the multi-slice branch from slice i on:
\* [exit, candidates], exit being "segv" for a NULL dereference, "empty"
\* for the early return and "done" when the loop ran to its end.
\* get_char_candidates returns NULL for a slice of underscores only; then
\* roaring_and(candidates, NULL) or roaring_is_empty(NULL) reads through
\* the NULL pointer.
RECURSIVE SliceCandidatesLoop(_, _, _, _)
SliceCandidatesCheck(G, info, candidates, i) ==
    IF candidates = NULLBM THEN [exit |-> "segv", candidates |-> NULLBM]
    ELSE IF roaring_is_empty(candidates) THEN [exit |-> "empty", candidates |-> candidates]
    ELSE SliceCandidatesLoop(G, info, candidates, i + 1)

SliceCandidatesStep(G, info, candidates, temp, i) ==
    IF candidates = NULLBM THEN SliceCandidatesCheck(G, info, temp, i)
    ELSE IF temp = NULLBM THEN [exit |-> "segv", candidates |-> NULLBM]
    ELSE SliceCandidatesCheck(G, info, roaring_and(candidates, temp), i)

SliceCandidatesLoop(G, info, candidates, i) ==
    IF i >= info.slice_count THEN [exit |-> "done", candidates |-> candidates]
    ELSE SliceCandidatesStep(G, info, candidates,
                             get_char_candidates(G, info.slices[i + 1]), i)

SliceCandidates(G, info) == SliceCandidatesLoop(G, info, NULLBM, 0)

\* The multi-slice branch after the anchors: verify and return.
MultiSliceVerify(G, info, result) ==
    Returned(roaring_to_array(verify_multislice_pattern(G, result, info)))

\* ... after the end anchor was applied (or skipped).
MultiSliceAfterEnd(G, info, result) ==
    IF roaring_is_empty(result) THEN Returned(<<>>)
    ELSE MultiSliceVerify(G, info, result)

\* ... after the start anchor was applied (or skipped): the test
\* "if (!info->ends_with_percent)".
MultiSliceAfterStart(G, info, result) ==
    IF roaring_is_empty(result) THEN Returned(<<>>)
    ELSE IF ~info.ends_with_percent
         THEN MultiSliceAfterEnd(G, info,
                  roaring_and(result, match_at_neg_pos(G, info.slices[info.slice_count], 0)))
         ELSE MultiSliceVerify(G, info, result)

\* ... after result = candidates AND get_length_range(min_len, -1): the
\* test "if (!info->starts_with_percent)".
MultiSliceAfterLength(G, info, result) ==
    IF roaring_is_empty(result) THEN Returned(<<>>)
    ELSE IF ~info.starts_with_percent
         THEN MultiSliceAfterStart(G, info, roaring_and(result, match_at_pos(G, info.slices[1], 0)))
         ELSE MultiSliceAfterStart(G, info, result)

\* ... after the candidate loop.
MultiSliceAfterCandidates(G, info, cand) ==
    IF cand.exit = "segv" THEN Segfault
    ELSE IF cand.exit = "empty" THEN Returned(<<>>)
    ELSE MultiSliceAfterLength(G, info,
             roaring_and(cand.candidates, get_length_range(G, SlicesMinLen(info), -1)))

MultiSliceQuery(G, info) == MultiSliceAfterCandidates(G, info, SliceCandidates(G, info))

\* optimized_query after analyze_pattern.
SliceQuery(G, info) ==
    IF info.slice_count = 0 THEN Returned(AllRecords(G))
    ELSE IF info.slice_count = 1 THEN SingleSliceQuery(G, info)
    ELSE MultiSliceQuery(G, info)

\* optimized_query after the scan for only_wildcards.
ScannedQuery(G, pattern, w) ==
    IF w.only_wildcards THEN WildcardQuery(G, w.underscore_count, w.has_percent)
    ELSE SliceQuery(G, analyze_pattern(pattern))

optimized_query(G, pattern) ==
    IF pattern = <<"%">> THEN Returned(AllRecords(G))
    ELSE ScannedQuery(G, pattern, ScanWildcards(pattern))

(* ------------- optimized_query and the bitmaps it allocates ------------ *)

\* The bitmaps one optimized_query call has created: n of them so far,
\* live the ones not freed yet, faults what went wrong with a pointer.
NoHeap == [n |-> 0, live |-> {}, faults |-> {}]

\* A RoaringBitmap pointer: h = 0 is NULL, h = -1 a bitmap owned by the
\* index, h > 0 the h-th bitmap the call created; bm is what it points to.
NullRef == [h |-> 0, bm |-> NULLBM]

\* A pointer read from the index.
IndexRef(bm) == IF bm = NULLBM THEN NullRef ELSE [h |-> -1, bm |-> bm]

Fault(H, f) == [n |-> H.n, live |-> H.live, faults |-> H.faults \cup {f}]

\* A read through r.
ReadThrough(H, r) ==
    IF r.h > 0 /\ r.h \notin H.live THEN Fault(H, "use after free") ELSE H

\* A variant of roaring_free_mem that releases nothing.
roaring_free_skipped(H, r) == H

\* roaring_free(r): nothing for NULL, else pfree of the blocks and the
\* struct.
roaring_free_mem(H, r) ==
    IF r.h = 0 THEN H
    ELSE IF r.h < 0 THEN Fault(H, "index bitmap freed")
    ELSE IF r.h \in H.live THEN [n |-> H.n, live |-> H.live \ {r.h}, faults |-> H.faults]
    ELSE Fault(H, "double free")

\* What a call hands back: the heap H after it, its bitmap pointer r, and
\* done, which tells a loop that the function has returned.
Allocated(H, bm) ==
    [H |-> [n |-> H.n + 1, live |-> H.live \cup {H.n + 1}, faults |-> H.faults],
     r |-> [h |-> H.n + 1, bm |-> bm],
     done |-> FALSE]

\* roaring_create().
Created(H) == Allocated(H, roaring_create)

\* A variant of CopyOf that hands back the pointer it was given.
AliasOf(H, r) == [H |-> H, r |-> r, done |-> FALSE]

\* roaring_copy(r).
CopyOf(H, r) == Allocated(ReadThrough(H, r), roaring_copy(r.bm))

\* roaring_and(a, b).
AndOf(H, a, b) == Allocated(ReadThrough(ReadThrough(H, a), b), roaring_and(a.bm, b.bm))

\* roaring_or(a, b).
OrOf(H, a, b) == Allocated(ReadThrough(ReadThrough(H, a), b), roaring_or(a.bm, b.bm))

\* S after roaring_free(old).
FreeAfter(S, old) == [H |-> roaring_free_mem(S.H, old), r |-> S.r, done |-> S.done]

\* "return ...;" inside a loop.
Returns(S) == [H |-> S.H, r |-> S.r, done |-> TRUE]

\* "if (roaring_is_empty(result)) return result;" where sc tells whether
\* the short-circuits are compiled in.
ReturnsIfEmpty(S, sc) ==
    [H |-> ReadThrough(S.H, S.r), r |-> S.r, done |-> sc /\ roaring_is_empty(S.r.bm)]

\* roaring_add(S.r, value).
AddTo(S, value) ==
    [H |-> IF S.r.h < 0 THEN Fault(S.H, "index bitmap written") ELSE ReadThrough(S.H, S.r),
     r |-> [h |-> S.r.h, bm |-> roaring_add(S.r.bm, value)],
     done |-> S.done]

\* One iteration of the loop of get_length_range, S.r being result.
LengthRangeStep(S, lbm) ==
    IF lbm = NULLBM THEN S ELSE FreeAfter(OrOf(S.H, S.r, IndexRef(lbm)), S.r)

get_length_range_mem(H, G, min_len, max_len_arg) ==
    LET max_len == IF max_len_arg < 0 \/ max_len_arg > G.length_idx.max_length
                   THEN G.length_idx.max_length - 1 ELSE max_len_arg
        RECURSIVE Loop(_, _)
        Loop(S, len) ==
            IF len > max_len THEN S
            ELSE Loop(LengthRangeStep(S, LengthBitmap(G, len)), len + 1)
    IN  Loop(Created(H), min_len)

\* get_pos_bitmap for match_at_pos, get_neg_bitmap for match_at_neg_pos.
PositionBitmap(G, ch, pos, forward) ==
    IF forward THEN get_pos_bitmap(G, ch, pos) ELSE get_neg_bitmap(G, ch, pos)

\* One byte of the loop that builds any_char_bm, S.r being any_char_bm.
AnyCharStepMem(S, char_bm) ==
    IF char_bm = NULLBM THEN S
    ELSE IF S.r.h = 0 THEN CopyOf(S.H, IndexRef(char_bm))
    ELSE FreeAfter(OrOf(S.H, S.r, IndexRef(char_bm)), S.r)

\* The loop over 0 .. CHAR_RANGE-1 that builds any_char_bm.
AnyCharMem(H, G, pos, forward) ==
    LET RECURSIVE Loop(_, _)
        Loop(S, k) ==
            IF k > Len(ByteOrder) THEN S
            ELSE Loop(AnyCharStepMem(S, PositionBitmap(G, ByteOrder[k], pos, forward)), k + 1)
    IN  Loop([H |-> H, r |-> NullRef, done |-> FALSE], 1)

\* "if (result) roaring_free(result); return roaring_create();"
FreeAndReturnNew(H, result) == Returns(Created(roaring_free_mem(H, result)))

\* The '_' branch of the matching loops once the loop over the bytes left
\* any_char_bm in A.r.
UnderscoreStepMem(A, result, sc) ==
    IF A.r.h = 0 THEN FreeAndReturnNew(A.H, result)
    ELSE IF result.h = 0 THEN A
    ELSE ReturnsIfEmpty(FreeAfter(FreeAfter(AndOf(A.H, result, A.r), result), A.r), sc)

\* The branch of the matching loops for a byte other than '_'.
LiteralStepMem(H, result, char_bm, sc) ==
    IF char_bm = NULLBM THEN FreeAndReturnNew(H, result)
    ELSE IF result.h = 0 THEN CopyOf(H, IndexRef(char_bm))
    ELSE ReturnsIfEmpty(FreeAfter(AndOf(H, result, IndexRef(char_bm)), result), sc)

\* One iteration of the loop of match_at_pos / match_at_neg_pos for the
\* pattern byte ch at pos, S.r being result.
MatchStepMem(S, G, ch, pos, forward, sc) ==
    IF ch = "_" THEN UnderscoreStepMem(AnyCharMem(S.H, G, pos, forward), S.r, sc)
    ELSE LiteralStepMem(S.H, S.r, PositionBitmap(G, ch, pos, forward), sc)

\* "return result ? result : roaring_create();"
ResultOrNewMem(S) == IF S.r.h # 0 THEN S ELSE Created(S.H)

\* The loops of match_at_pos (forward: i = k, pos = start_pos + k) and of
\* match_at_neg_pos (i = plen - 1 - k, pos = -(plen - i)) from their k-th
\* iteration on.
RECURSIVE MatchLoopMem(_, _, _, _, _, _, _)
MatchLoopNextMem(G, pattern, step, k, start_pos, forward, sc) ==
    IF step.done THEN step
    ELSE MatchLoopMem(G, pattern, step, k + 1, start_pos, forward, sc)

MatchLoopMem(G, pattern, S, k, start_pos, forward, sc) ==
    IF k >= Len(pattern) THEN ResultOrNewMem(S)
    ELSE MatchLoopNextMem(G, pattern,
             MatchStepMem(S, G,
                          pattern[(IF forward THEN k ELSE Len(pattern) - 1 - k) + 1],
                          IF forward THEN start_pos + k ELSE -(k + 1),
                          forward, sc),
             k, start_pos, forward, sc)

\* "First filter by minimum required length", F.r being result after it.
RequiredLengthFilterMem(H, G, required_length) ==
    IF required_length > 0 /\ required_length <= G.length_idx.max_length
    THEN get_length_range_mem(H, G, required_length, -1)
    ELSE [H |-> H, r |-> NullRef, done |-> FALSE]

MatchFilteredMem(G, pattern, start_pos, F, forward, sc) ==
    IF sc /\ F.r.h # 0 /\ roaring_is_empty(F.r.bm) THEN F
    ELSE MatchLoopMem(G, pattern, F, 0, start_pos, forward, sc)

match_at_pos_mem(H, G, pattern, start_pos, sc) ==
    MatchFilteredMem(G, pattern, start_pos,
                     RequiredLengthFilterMem(H, G, start_pos + Len(pattern)), TRUE, sc)

match_at_neg_pos_mem(H, G, pattern, end_offset, sc) ==
    MatchFilteredMem(G, pattern, 0,
                     RequiredLengthFilterMem(H, G, Len(pattern)), FALSE, sc)

RECURSIVE CharCandidatesLoopMem(_, _, _, _, _, _)
CharCandidatesAndMem(G, pattern, S, seen, i, sc) ==
    IF sc /\ roaring_is_empty(S.r.bm) THEN S
    ELSE CharCandidatesLoopMem(G, pattern, S, seen, i, sc)

CharCandidatesLoopMem(G, pattern, S, seen, i, sc) ==
    IF i >= Len(pattern) THEN S
    ELSE IF pattern[i + 1] # "_" /\ pattern[i + 1] # "%" /\ pattern[i + 1] \notin seen
         THEN IF G.char_cache[pattern[i + 1]] # NULLBM
              THEN IF S.r.h = 0
                   THEN CharCandidatesLoopMem(G, pattern,
                            CopyOf(S.H, IndexRef(G.char_cache[pattern[i + 1]])),
                            seen \cup {pattern[i + 1]}, i + 1, sc)
                   ELSE CharCandidatesAndMem(G, pattern,
                            FreeAfter(AndOf(S.H, S.r, IndexRef(G.char_cache[pattern[i + 1]])),
                                      S.r),
                            seen \cup {pattern[i + 1]}, i + 1, sc)
              ELSE Created(roaring_free_mem(S.H, S.r))
         ELSE CharCandidatesLoopMem(G, pattern, S, seen, i + 1, sc)

get_char_candidates_mem(H, G, pattern, sc) ==
    CharCandidatesLoopMem(G, pattern, [H |-> H, r |-> NullRef, done |-> FALSE], {}, 0, sc)

\* The loop of verify_multislice_pattern, S.r being verified.
RECURSIVE VerifyLoopMem(_, _, _, _, _)
VerifyLoopMem(G, indices, info, S, i) ==
    IF i > Len(indices) THEN S
    ELSE IF AllSlicesFound(G.data[indices[i] + 1], info.slices)
         THEN VerifyLoopMem(G, indices, info, AddTo(S, indices[i]), i + 1)
         ELSE VerifyLoopMem(G, indices, info, S, i + 1)

verify_multislice_pattern_mem(H, G, candidates, info) ==
    VerifyLoopMem(G, roaring_to_array(candidates.bm), info,
                  Created(ReadThrough(H, candidates)), 1)

\* What an optimized_query call leaves: it returned indices ("ok") or the
\* backend died ("segv"), and H.
Outcome(status, indices, H) == [status |-> status, indices |-> indices, H |-> H]

\* "*result_count = 0; return NULL;" after the roaring_free of r.
ReturnsNone(H, r) == Outcome("ok", <<>>, roaring_free_mem(H, r))

\* "indices = roaring_to_array(result, result_count); roaring_free(result);
\* return indices;"
ToArrayAndFree(S) ==
    Outcome("ok", roaring_to_array(S.r.bm), roaring_free_mem(ReadThrough(S.H, S.r), S.r))

\* FAST PATH: the pattern contains only wildcards.
WildcardQueryMem(G, underscore_count, has_percent) ==
    IF ~has_percent
    THEN IF LengthBitmap(G, underscore_count) # NULLBM
         THEN ToArrayAndFree(CopyOf(NoHeap, IndexRef(LengthBitmap(G, underscore_count))))
         ELSE ToArrayAndFree(Created(NoHeap))
    ELSE ToArrayAndFree(get_length_range_mem(NoHeap, G, underscore_count, -1))

\* Case: pattern (exact match), M.r being result = match_at_pos(slice, 0).
ExactResultMem(M, lbm) ==
    IF lbm # NULLBM THEN FreeAfter(AndOf(M.H, M.r, IndexRef(lbm)), M.r)
    ELSE Created(roaring_free_mem(M.H, M.r))

\* Cases pattern% and %pattern, M.r being result of match_at_pos /
\* match_at_neg_pos.
AnchoredResultMem(M, candidates) == FreeAfter(AndOf(M.H, M.r, candidates), M.r)

\* Case: %pattern%, the loop over cand_indices, S.r being result.
RECURSIVE ContainsLoopMem(_, _, _, _, _)
ContainsLoopMem(G, cand_indices, slice, S, i) ==
    IF i > Len(cand_indices) THEN S
    ELSE IF contains_substring(G.data[cand_indices[i] + 1], slice)
         THEN ContainsLoopMem(G, cand_indices, slice, AddTo(S, cand_indices[i]), i + 1)
         ELSE ContainsLoopMem(G, cand_indices, slice, S, i + 1)

\* Case: %pattern%: the result, and candidates freed and set to NULL.
ContainsResultMem(G, slice, C) ==
    IF C.r.h # 0
    THEN FreeAfter(ContainsLoopMem(G, roaring_to_array(C.r.bm), slice,
                                   Created(ReadThrough(C.H, C.r)), 1),
                   C.r)
    ELSE Created(C.H)

\* The single-slice branch once candidates = get_char_candidates(slice) is
\* in C.r; the roaring_free(candidates) at its end comes after the case.
SingleSliceWithMem(G, info, slice, C, sc) ==
    IF sc /\ roaring_is_empty(C.r.bm) THEN ReturnsNone(C.H, C.r)
    ELSE IF ~info.starts_with_percent /\ ~info.ends_with_percent
         THEN ToArrayAndFree(FreeAfter(
                  ExactResultMem(match_at_pos_mem(C.H, G, slice, 0, sc),
                                 LengthBitmap(G, pattern_length_with_underscores(slice))),
                  C.r))
    ELSE IF ~info.starts_with_percent /\ info.ends_with_percent
         THEN ToArrayAndFree(FreeAfter(
                  AnchoredResultMem(match_at_pos_mem(C.H, G, slice, 0, sc), C.r), C.r))
    ELSE IF info.starts_with_percent /\ ~info.ends_with_percent
         THEN ToArrayAndFree(FreeAfter(
                  AnchoredResultMem(match_at_neg_pos_mem(C.H, G, slice, 0, sc), C.r), C.r))
    ELSE ToArrayAndFree(ContainsResultMem(G, slice, C))

\* The candidate loop of the multi-slice branch from slice i on, S.r being
\* candidates: exit is "segv" for a read through NULL, "empty" for the
\* early return, "done" at the end of the loop.
SliceLoopExit(exit, S) == [exit |-> exit, H |-> S.H, r |-> S.r]

RECURSIVE SliceCandidatesLoopMem(_, _, _, _, _)
SliceCandidatesCheckMem(G, info, S, i, sc) ==
    IF ~sc THEN SliceCandidatesLoopMem(G, info, S, i + 1, sc)
    ELSE IF S.r.h = 0 THEN SliceLoopExit("segv", S)
    ELSE IF roaring_is_empty(S.r.bm) THEN SliceLoopExit("empty", FreeAfter(S, S.r))
    ELSE SliceCandidatesLoopMem(G, info, S, i + 1, sc)

SliceCandidatesStepMem(G, info, candidates, T, i, sc) ==
    IF candidates.h = 0 THEN SliceCandidatesCheckMem(G, info, T, i, sc)
    ELSE IF T.r.h = 0 THEN SliceLoopExit("segv", T)
    ELSE SliceCandidatesCheckMem(G, info,
             FreeAfter(FreeAfter(AndOf(T.H, candidates, T.r), candidates), T.r), i, sc)

SliceCandidatesLoopMem(G, info, S, i, sc) ==
    IF i >= info.slice_count THEN SliceLoopExit("done", S)
    ELSE SliceCandidatesStepMem(G, info, S.r,
                                get_char_candidates_mem(S.H, G, info.slices[i + 1], sc),
                                i, sc)

\* "temp3 = roaring_and(result, temp); roaring_free(result);
\* roaring_free(temp); result = temp3;"
AndBothFreed(result, T) == FreeAfter(FreeAfter(AndOf(T.H, result, T.r), result), T.r)

\* The multi-slice branch: verify and return.
MultiSliceVerifyMem(G, info, S) ==
    ToArrayAndFree(FreeAfter(verify_multislice_pattern_mem(S.H, G, S.r, info), S.r))

\* ... after the end anchor was applied.
MultiSliceAfterEndMem(G, info, S, sc) ==
    IF sc /\ roaring_is_empty(S.r.bm) THEN ReturnsNone(S.H, S.r)
    ELSE MultiSliceVerifyMem(G, info, S)

\* ... after the start anchor was applied (or skipped).
MultiSliceAfterStartMem(G, info, S, sc) ==
    IF sc /\ roaring_is_empty(S.r.bm) THEN ReturnsNone(S.H, S.r)
    ELSE IF ~info.ends_with_percent
         THEN MultiSliceAfterEndMem(G, info,
                  AndBothFreed(S.r, match_at_neg_pos_mem(S.H, G, info.slices[info.slice_count],
                                                         0, sc)),
                  sc)
         ELSE MultiSliceVerifyMem(G, info, S)

\* ... after result = candidates AND get_length_range(min_len, -1).
MultiSliceAfterLengthMem(G, info, S, sc) ==
    IF sc /\ roaring_is_empty(S.r.bm) THEN ReturnsNone(S.H, S.r)
    ELSE IF ~info.starts_with_percent
         THEN MultiSliceAfterStartMem(G, info,
                  AndBothFreed(S.r, match_at_pos_mem(S.H, G, info.slices[1], 0, sc)), sc)
         ELSE MultiSliceAfterStartMem(G, info, S, sc)

\* ... after the candidate loop.
MultiSliceAfterCandidatesMem(G, info, cand, sc) ==
    IF cand.exit = "segv" THEN Outcome("segv", <<>>, cand.H)
    ELSE IF cand.exit = "empty" THEN Outcome("ok", <<>>, cand.H)
    ELSE IF cand.r.h = 0 THEN Outcome("segv", <<>>, cand.H)
    ELSE MultiSliceAfterLengthMem(G, info,
             AndBothFreed(cand.r, get_length_range_mem(cand.H, G, SlicesMinLen(info), -1)),
             sc)

\* optimized_query after analyze_pattern.
SliceQueryMem(G, info, sc) ==
    IF info.slice_count = 0 THEN Outcome("ok", AllRecords(G), NoHeap)
    ELSE IF info.slice_count = 1
         THEN SingleSliceWithMem(G, info, info.slices[1],
                                 get_char_candidates_mem(NoHeap, G, info.slices[1], sc), sc)
    ELSE MultiSliceAfterCandidatesMem(G, info,
             SliceCandidatesLoopMem(G, info, [H |-> NoHeap, r |-> NullRef, done |-> FALSE],
                                    0, sc),
             sc)

ScannedQueryMem(G, pattern, w, sc) ==
    IF w.only_wildcards THEN WildcardQueryMem(G, w.underscore_count, w.has_percent)
    ELSE SliceQueryMem(G, analyze_pattern(pattern), sc)

\* optimized_query(pattern) with the bitmaps it allocates and frees; with
\* sc = FALSE the returns on an empty intermediate bitmap are left out.
optimized_query_mem(G, pattern, sc) ==
    IF pattern = <<"%">> THEN Outcome("ok", AllRecords(G), NoHeap)
    ELSE ScannedQueryMem(G, pattern, ScanWildcards(pattern), sc)

(* ------------------------------ verifier ------------------------------- *)

\* match_pattern(s, p): the scan matcher of the repository.
match_pattern(s, p) ==
    LET RECURSIVE SkipPercents(_)
        SkipPercents(pi) == IF pi < Len(p) /\ p[pi + 1] = "%" THEN SkipPercents(pi + 1) ELSE pi = Len(p)
        RECURSIVE Loop(_, _, _, _)
        Loop(si, pi, star, match) ==
            IF si >= Len(s) THEN SkipPercents(pi)
            ELSE IF pi < Len(p) /\ (p[pi + 1] = s[si + 1] \/ p[pi + 1] = "_")
                 THEN Loop(si + 1, pi + 1, star, match)
            ELSE IF pi < Len(p) /\ p[pi + 1] = "%" THEN Loop(si, pi + 1, pi, si)
            ELSE IF star # -1 THEN Loop(match + 1, star + 1, star, match + 1)
            ELSE FALSE
    IN  Loop(0, 0, -1, 0)

\* value LIKE pattern, as PostgreSQL evaluates it in the verification
\* queries: '%' stands for any run of bytes, '_' for exactly one byte, any
\* other byte for itself, and the whole value must be consumed.
RECURSIVE Like(_, _)
Like(value, pattern) ==
    IF pattern = <<>> THEN value = <<>>
    ELSE IF Head(pattern) = "%"
         THEN Like(value, Tail(pattern)) \/ (value # <<>> /\ Like(Tail(value), pattern))
         ELSE /\ value # <<>>
              /\ (Head(pattern) = "_" \/ Head(pattern) = Head(value))
              /\ Like(Tail(value), Tail(pattern))

(* -------------------------- v12: query cache --------------------------- *)

QUERY_CACHE_SIZE == 512

BLOOM_SIZE == 4096

\* The result count from which on a result is not cached.
CACHE_MAX_COUNT == 50000

\* The byte values of the model's bytes.
ByteCode(c) ==
    CASE c = "%" -> 37
      [] c = "_" -> 95
      [] c = "a" -> 97
      [] c = "b" -> 98

\* hash_string: hash = ((hash << 5) + hash) + c from 5381 in uint32_t, then
\* hash % QUERY_CACHE_SIZE.  QUERY_CACHE_SIZE divides 2^32, so reducing
\* every step modulo QUERY_CACHE_SIZE yields the same bucket as the
\* wrapping 32-bit arithmetic.
hash_string(str) ==
    LET RECURSIVE Loop(_, _)
        Loop(hash, i) ==
            IF i > Len(str) THEN hash % QUERY_CACHE_SIZE
            ELSE Loop((((hash * 32) + hash) + ByteCode(str[i])) % QUERY_CACHE_SIZE, i + 1)
    IN  Loop(5381 % QUERY_CACHE_SIZE, 1)

\* The three bits h1, h2, h3 of bloom_add and bloom_check:
\* hash % BLOOM_SIZE, (hash * 16777619) % BLOOM_SIZE and
\* (hash * 2654435761U) % BLOOM_SIZE in uint32_t.  BLOOM_SIZE divides 2^32,
\* so the multipliers act through their residues 403 and 2481.
BloomBits(hash) ==
    {hash % BLOOM_SIZE, (hash * 403) % BLOOM_SIZE, (hash * 2481) % BLOOM_SIZE}

bloom_add(bloom, hash) == bloom \cup BloomBits(hash)

bloom_check(bloom, hash) == BloomBits(hash) \subseteq bloom

\* The QueryCache after init_query_cache.  entries lists the CacheEntry
\* records newest first; entries[h] of the code is the sublist of the
\* records with bucket h.
init_query_cache == [entries |-> <<>>, access_counter |-> 0, bloom |-> {}]

\* A variant of cache_lookup that returns the head of the bucket without
\* comparing the patterns.
cache_lookup_bucket_head(cache, pattern) ==
    LET RECURSIVE Walk(_)
        Walk(i) ==
            IF i > Len(cache.entries) THEN 0
            ELSE IF cache.entries[i].bucket = hash_string(pattern) THEN i
            ELSE Walk(i + 1)
    IN  IF ~bloom_check(cache.bloom, hash_string(pattern)) THEN 0 ELSE Walk(1)

\* cache_lookup: the position in entries of the record found, 0 for NULL.
cache_lookup(cache, pattern) ==
    LET RECURSIVE Walk(_)
        Walk(i) ==
            IF i > Len(cache.entries) THEN 0
            ELSE IF /\ cache.entries[i].bucket = hash_string(pattern)
                    /\ cache.entries[i].pattern = pattern
                 THEN i
            ELSE Walk(i + 1)
    IN  IF ~bloom_check(cache.bloom, hash_string(pattern)) THEN 0 ELSE Walk(1)

cache_insert(cache, pattern, results) ==
    IF Len(results) > CACHE_MAX_COUNT THEN cache
    ELSE [entries |-> <<[pattern |-> pattern, results |-> results,
                         last_used |-> cache.access_counter + 1,
                         bucket |-> hash_string(pattern)]>> \o cache.entries,
          access_counter |-> cache.access_counter + 1,
          bloom |-> bloom_add(cache.bloom, hash_string(pattern))]

\* v12: the end of match_at_pos and match_at_neg_pos, "intersect with
\* length constraint" and "return result ? result : roaring_create()".
v12_LengthFiltered(G, result, min_required_length) ==
    IF result # NULLBM /\ min_required_length > 0
    THEN roaring_and(result, get_length_range(G, min_required_length, -1))
    ELSE IF result # NULLBM THEN result
    ELSE roaring_create

\* v12 match_at_pos: underscores are skipped, a pattern of underscores
\* only is answered by length.
v12_match_at_pos(G, pattern, start_pos) ==
    LET RECURSIVE Loop(_, _)
        Loop(result, i) ==
            IF i >= Len(pattern)
            THEN v12_LengthFiltered(G, result, start_pos + Len(pattern))
            ELSE IF pattern[i + 1] = "_" THEN Loop(result, i + 1)
            ELSE IF get_pos_bitmap(G, pattern[i + 1], start_pos + i) = NULLBM
            THEN roaring_create
            ELSE IF result = NULLBM
            THEN Loop(roaring_copy(get_pos_bitmap(G, pattern[i + 1], start_pos + i)), i + 1)
            ELSE IF roaring_is_empty(
                        roaring_and(result, get_pos_bitmap(G, pattern[i + 1], start_pos + i)))
            THEN roaring_and(result, get_pos_bitmap(G, pattern[i + 1], start_pos + i))
            ELSE Loop(roaring_and(result, get_pos_bitmap(G, pattern[i + 1], start_pos + i)),
                      i + 1)
    IN  IF \A k \in 1..Len(pattern) : pattern[k] = "_"
        THEN get_length_range(G, start_pos + Len(pattern), -1)
        ELSE Loop(NULLBM, 0)

\* v12 match_at_neg_pos: the loop runs from the last byte, pos = -(plen - i).
v12_match_at_neg_pos(G, pattern, end_offset) ==
    LET RECURSIVE Loop(_, _)
        Loop(result, i) ==
            IF i < 0
            THEN v12_LengthFiltered(G, result, Len(pattern))
            ELSE IF pattern[i + 1] = "_" THEN Loop(result, i - 1)
            ELSE IF get_neg_bitmap(G, pattern[i + 1], -(Len(pattern) - i)) = NULLBM
            THEN roaring_create
            ELSE IF result = NULLBM
            THEN Loop(roaring_copy(get_neg_bitmap(G, pattern[i + 1], -(Len(pattern) - i))), i - 1)
            ELSE IF roaring_is_empty(
                        roaring_and(result, get_neg_bitmap(G, pattern[i + 1], -(Len(pattern) - i))))
            THEN roaring_and(result, get_neg_bitmap(G, pattern[i + 1], -(Len(pattern) - i)))
            ELSE Loop(roaring_and(result, get_neg_bitmap(G, pattern[i + 1], -(Len(pattern) - i))),
                      i - 1)
    IN  IF \A k \in 1..Len(pattern) : pattern[k] = "_"
        THEN get_length_range(G, Len(pattern), -1)
        ELSE Loop(NULLBM, Len(pattern) - 1)

\* What v12's optimized_query computes when it runs to its last
\* statements: the ids, to be offered to the cache.
Computed(indices) == [status |-> "ok", indices |-> indices, at_end |-> TRUE]

\* An early return of v12's optimized_query: the cache is not offered
\* anything.
ReturnedEarly(indices) == [status |-> "ok", indices |-> indices, at_end |-> FALSE]

\* v12, "Single slice", once candidates = get_char_candidates(slice) is
\* known.  For a slice of underscores candidates is NULL and
\* roaring_is_empty reads through it.
v12_SingleSliceWith(G, info, slice, candidates) ==
    IF candidates = NULLBM THEN [status |-> "segv", indices |-> <<>>, at_end |-> FALSE]
    ELSE IF roaring_is_empty(candidates) THEN ReturnedEarly(<<>>)
    ELSE IF ~info.starts_with_percent /\ ~info.ends_with_percent
    THEN Computed(roaring_to_array(
             IF LengthBitmap(G, pattern_length_with_underscores(slice)) # NULLBM
             THEN roaring_and(v12_match_at_pos(G, slice, 0),
                              LengthBitmap(G, pattern_length_with_underscores(slice)))
             ELSE roaring_create))
    ELSE IF ~info.starts_with_percent /\ info.ends_with_percent
    THEN Computed(roaring_to_array(roaring_and(v12_match_at_pos(G, slice, 0), candidates)))
    ELSE IF info.starts_with_percent /\ ~info.ends_with_percent
    THEN Computed(roaring_to_array(roaring_and(v12_match_at_neg_pos(G, slice, 0), candidates)))
    ELSE Computed(roaring_to_array(ContainsResult(G, slice, candidates)))

\* v12, "Multiple slices", once the candidate loop has ended with cand.
v12_MultiSliceWith(G, info, cand) ==
    LET by_length == roaring_and(cand.candidates, get_length_range(G, SlicesMinLen(info), -1))
        by_start  == IF ~info.starts_with_percent
                     THEN roaring_and(by_length, v12_match_at_pos(G, info.slices[1], 0))
                     ELSE by_length
        by_end    == IF ~info.ends_with_percent
                     THEN roaring_and(by_start,
                                      v12_match_at_neg_pos(G, info.slices[info.slice_count], 0))
                     ELSE by_start
    IN  IF cand.exit = "segv" THEN [status |-> "segv", indices |-> <<>>, at_end |-> FALSE]
        ELSE IF cand.exit = "empty" THEN ReturnedEarly(<<>>)
        ELSE IF roaring_is_empty(by_length) THEN ReturnedEarly(<<>>)
        ELSE IF roaring_is_empty(by_start) THEN ReturnedEarly(<<>>)
        ELSE IF roaring_is_empty(by_end) THEN ReturnedEarly(<<>>)
        ELSE Computed(roaring_to_array(verify_multislice_pattern(G, by_end, info)))

\* v12 optimized_query from "Pattern: % - match all" on, that is, without
\* the cache check at its top and the cache insert at its end.
v12_UncachedQuery(G, pattern, info) ==
    IF pattern = <<"%">> THEN ReturnedEarly(AllRecords(G))
    ELSE IF info.slice_count = 0 THEN ReturnedEarly(AllRecords(G))
    ELSE IF info.slice_count = 1
    THEN v12_SingleSliceWith(G, info, info.slices[1], get_char_candidates(G, info.slices[1]))
    ELSE v12_MultiSliceWith(G, info, SliceCandidates(G, info))

\* The rest of v12's optimized_query once cache_lookup returned hit (the
\* position of the record found, 0 for NULL) and, for a miss, the
\* computation came back with out.  "Check cache first": a hit returns a
\* copy of the record's results and stamps last_used.  "Cache results": a
\* result of 1 to CACHE_MAX_COUNT - 1 ids is inserted.
v12_QueryAfterLookup(G, cache, pattern, hit, out) ==
    IF hit # 0
    THEN [out |-> ReturnedEarly(cache.entries[hit].results),
          cache |-> [cache EXCEPT !.access_counter = @ + 1,
                                  !.entries[hit].last_used = cache.access_counter + 1]]
    ELSE IF out.at_end /\ Len(out.indices) > 0 /\ Len(out.indices) < CACHE_MAX_COUNT
    THEN [out |-> out, cache |-> cache_insert(cache, pattern, out.indices)]
    ELSE [out |-> out, cache |-> cache]

\* v12 optimized_query: [out, cache], the answer and the cache it leaves.
v12_optimized_query(G, cache, pattern) ==
    v12_QueryAfterLookup(G, cache, pattern, cache_lookup(cache, pattern),
                         v12_UncachedQuery(G, pattern, analyze_pattern(pattern)))

(* ---------------------------- state machine ---------------------------- *)

VARIABLES
    table,         \* the rows of the source column, in ctid order
    pattern,       \* the pattern the session queries with
    global_index,  \* the backend's RoaringIndex, NULL_INDEX before a build
    backend,       \* "up", or "segv" once the backend was killed
    count_ret,     \* what the last optimized_like_query call returned
    rows_ret,      \* what the last optimized_like_query_rows call emitted
    error,         \* the ERROR the last call raised, "none" if it returned
    index_context, \* the static MemoryContext: "NULL", "live" or "deleted"
    index_home,    \* where *global_index lives: "none" (NULL pointer),
                   \* "context" (the arena index_context names) or
                   \* "orphan" (an arena index_context no longer names)
    home_deletes,  \* MemoryContextDelete calls so far on that arena
    matcher,       \* the locals of a running match_pattern call
    query_cache,   \* v12: global_index->query_cache
    bitmap_heap    \* the palloc'd RoaringBitmap structs and block arrays of
                   \* a caller of the bitmap functions

vars == <<table, pattern, global_index, backend, count_ret, rows_ret,
          error, index_context, index_home, home_deletes, matcher, query_cache,
          bitmap_heap>>

\* The variables of the index and of its callers.
index_vars == <<table, pattern, global_index, backend, count_ret, rows_ret,
                error, index_context, index_home, home_deletes, query_cache>>

\* No roaring_to_array call has just returned.
NoRet == [h |-> 0, count |-> 0, array |-> <<>>]

\* No bitmap was created.
NoBitmaps == [structs |-> <<>>, arrays |-> <<>>, ret |-> NoRet]

\* No match_pattern call is running.
IdleMatcher ==
    [pc |-> "idle", s |-> <<>>, p |-> <<>>,
     si |-> 0, pi |-> 0, star |-> -1, match |-> 0, result |-> FALSE]

NoCount == [called |-> FALSE, warning |-> FALSE, value |-> 0]

NoRows == [called |-> FALSE, built |-> FALSE, rows |-> <<>>]

\* A backend that has just loaded the library: the statics are NULL.
FreshBackend ==
    /\ global_index = NULL_INDEX
    /\ backend = "up"
    /\ count_ret = NoCount
    /\ rows_ret = NoRows
    /\ error = "none"
    /\ index_context = "NULL"
    /\ index_home = "none"
    /\ home_deletes = 0

Init ==
    /\ table \in Tables
    /\ pattern \in Patterns
    /\ FreshBackend
    /\ matcher = IdleMatcher
    /\ query_cache = init_query_cache
    /\ bitmap_heap = NoBitmaps

\* "if (index_context) MemoryContextDelete(index_context);": index_context
\* is not reset afterwards, so a later call may hand the same, already
\* deleted context to MemoryContextDelete again.  That call reads freed
\* memory: it may return or kill the backend.
MemoryContextDeleteOutcomes(ctx) ==
    IF ctx = "deleted" THEN {"returns", "segv"} ELSE {"returns"}

\* The MemoryContextDelete call killed the backend.
BuildCrashes ==
    /\ backend' = "segv"
    /\ UNCHANGED <<global_index, index_context, index_home, home_deletes, error>>

\* home_deletes once the build has run "MemoryContextDelete(index_context)".
\* The count stops at MaxDeletes.
DeletesAfterBuildStart ==
    IF index_context # "NULL" /\ index_home = "context"
    THEN Min({home_deletes + 1, MaxDeletes})
    ELSE home_deletes

\* SELECT build_optimized_index(table, column) running to its end: deletes
\* the old context, creates a new one and leaves in global_index the index
\* of the table's rows.
build_optimized_index ==
    /\ backend = "up"
    /\ \E freed \in MemoryContextDeleteOutcomes(index_context) :
           IF freed = "segv"
           THEN BuildCrashes
           ELSE /\ global_index' = BuiltIndex(table)
                /\ index_context' = "live"
                /\ index_home' = "context"
                /\ home_deletes' = 0
                /\ error' = "none"
                /\ UNCHANGED backend
    /\ count_ret' = NoCount
    /\ rows_ret' = NoRows
    /\ UNCHANGED <<table, pattern, matcher, query_cache, bitmap_heap>>

\* A variant of build_scan_fails that raises the error only after the
\* old context was deleted.
build_scan_fails_after_delete ==
    /\ backend = "up"
    /\ \E msg \in {"SPI_connect failed", "Query failed"} : error' = msg
    /\ index_context' = IF index_context = "NULL" THEN "NULL" ELSE "deleted"
    /\ home_deletes' = DeletesAfterBuildStart
    /\ count_ret' = NoCount
    /\ rows_ret' = NoRows
    /\ UNCHANGED <<table, pattern, global_index, backend, index_home, matcher,
                   query_cache, bitmap_heap>>

\* The build's source scan fails: "SPI_connect failed" or "Query failed" is
\* raised before the statics are touched.
build_scan_fails ==
    /\ backend = "up"
    /\ \E msg \in {"SPI_connect failed", "Query failed"} : error' = msg
    /\ count_ret' = NoCount
    /\ rows_ret' = NoRows
    /\ UNCHANGED <<table, pattern, global_index, backend,
                   index_context, index_home, home_deletes, matcher, query_cache, bitmap_heap>>

\* The allocations of the build, after the rows were read, at which the
\* model lets palloc raise "out of memory": AllocSetContextCreate, the
\* MemoryContextAlloc of the RoaringIndex, and the roaring_create of the
\* length loop for record idx (the first record of its length).
AllocationPoints(tbl) ==
    {[at |-> "context", idx |-> 0], [at |-> "index", idx |-> 0]}
    \cup {[at |-> "length", idx |-> j] : j \in
             {j \in 0..(Len(tbl) - 1) :
                 /\ Len(StoredValue(tbl[j + 1])) <= MAX_POSITIONS
                 /\ \A i \in 0..(j - 1) :
                        Len(StoredValue(tbl[i + 1])) # Len(StoredValue(tbl[j + 1]))}}

\* The length index when the loop over the records stopped at record idx.
LengthIndexUpTo(G, idx) ==
    [G EXCEPT !.length_idx =
        [max_length |-> G.max_len + 1,
         length_bitmaps |->
             FillLengthBitmaps([i \in 1..(G.max_len + 1) |-> NULLBM],
                               SubSeq(G.data, 1, idx), G.max_len + 1, 0)]]

\* What global_index points to when the build over tbl was cut short in
\* the length loop at record idx.
PartiallyBuiltIndex(tbl, idx) ==
    LengthIndexUpTo(WithCharCache(IndexRecords(EmptyIndex(Len(tbl)), tbl, 0)), idx)

\* The statics after palloc raised at point.
AllocationFails(point) ==
    /\ error' = "out of memory"
    /\ global_index' = IF point.at = "length"
                       THEN PartiallyBuiltIndex(table, point.idx)
                       ELSE global_index
    /\ index_context' = IF point.at = "context"
                        THEN (IF index_context = "NULL" THEN "NULL" ELSE "deleted")
                        ELSE "live"
    /\ index_home' = IF point.at = "length" THEN "context"
                     ELSE IF point.at = "index" /\ index_home = "context" THEN "orphan"
                     ELSE index_home
    /\ home_deletes' = IF point.at = "length" THEN 0 ELSE DeletesAfterBuildStart
    /\ UNCHANGED backend

\* SELECT build_optimized_index(table, column) when an allocation fails
\* after the rows were read.
build_alloc_fails ==
    /\ backend = "up"
    /\ \E point \in AllocationPoints(table),
          freed \in MemoryContextDeleteOutcomes(index_context) :
           IF freed = "segv" THEN BuildCrashes ELSE AllocationFails(point)
    /\ count_ret' = NoCount
    /\ rows_ret' = NoRows
    /\ UNCHANGED <<table, pattern, matcher, query_cache, bitmap_heap>>

\* global_index points into an arena that MemoryContextDelete has freed.
Dangling == index_home # "none" /\ home_deletes > 0

\* Reading *global_index: through a dangling pointer the read finds the
\* freed bytes still in place or kills the backend.
IndexReadOutcomes == IF Dangling THEN {"reads", "segv"} ELSE {"reads"}

\* The effect of optimized_like_query once optimized_query came back with
\* out: PG_RETURN_INT32(result_count), or the backend is gone.
CountReturn(out) ==
    IF out.status = "segv"
    THEN /\ backend' = "segv"
         /\ UNCHANGED count_ret
    ELSE /\ count_ret' = [called |-> TRUE, warning |-> FALSE, value |-> Len(out.indices)]
         /\ UNCHANGED backend

\* A variant of IndexNotBuiltCount that logs nothing.
IndexNotBuiltSilent == [called |-> TRUE, warning |-> FALSE, value |-> 0]

\* "if (!global_index)": elog(WARNING, "Index not built. ...") and
\* PG_RETURN_INT32(0).
IndexNotBuiltCount == [called |-> TRUE, warning |-> TRUE, value |-> 0]

\* SELECT optimized_like_query(pattern).
optimized_like_query ==
    /\ backend = "up"
    /\ ~count_ret.called
    /\ IF global_index = NULL_INDEX
       THEN /\ count_ret' = IndexNotBuiltCount
            /\ UNCHANGED backend
       ELSE \E read \in IndexReadOutcomes :
                CountReturn(IF read = "segv" THEN Segfault
                            ELSE optimized_query(global_index, pattern))
    /\ error' = "none"
    /\ UNCHANGED <<table, pattern, global_index, rows_ret,
                   index_context, index_home, home_deletes, matcher, query_cache, bitmap_heap>>

\* A variant of EmittedRows that stops one call early.
EmittedRowsButLast(G, matches) ==
    [k \in 1..(Len(matches) - 1) |-> [RecordId |-> matches[k], Value |-> G.data[matches[k] + 1]]]

\* The rows the set-returning function emits for the array matches: one
\* (row_idx, data[row_idx]) per call, in array order.
EmittedRows(G, matches) ==
    [k \in 1..Len(matches) |-> [RecordId |-> matches[k], Value |-> G.data[matches[k] + 1]]]

RowsReturn(out) ==
    IF out.status = "segv"
    THEN /\ backend' = "segv"
         /\ UNCHANGED rows_ret
    ELSE /\ rows_ret' = [called |-> TRUE, built |-> TRUE,
                         rows |-> EmittedRows(global_index, out.indices)]
         /\ UNCHANGED backend

\* SELECT * FROM optimized_like_query_rows(pattern), run to completion.
optimized_like_query_rows ==
    /\ backend = "up"
    /\ ~rows_ret.called
    /\ IF global_index = NULL_INDEX
       THEN /\ rows_ret' = [called |-> TRUE, built |-> FALSE, rows |-> <<>>]
            /\ UNCHANGED backend
       ELSE \E read \in IndexReadOutcomes :
                RowsReturn(IF read = "segv" THEN Segfault
                           ELSE optimized_query(global_index, pattern))
    /\ error' = "none"
    /\ UNCHANGED <<table, pattern, global_index, count_ret,
                   index_context, index_home, home_deletes, matcher, query_cache, bitmap_heap>>

Next ==
    \/ build_optimized_index
    \/ optimized_like_query
    \/ optimized_like_query_rows

Spec == Init /\ [][Next]_vars

(* ------------------- builds that fail, and rebuilds -------------------- *)

LifecycleValues == {<<"a">>, <<"a", "b">>, <<"b", "a", "b">>}

\* The tables of up to MaxRecords rows over LifecycleValues.
LifecycleTables == {t \in Tables : \A i \in 1..Len(t) : t[i] \in LifecycleValues}

LifecyclePatterns == {<<"%">>, <<"a", "%">>, <<"_", "_">>}

\* The rows of the source table change between two builds.
change_table ==
    /\ backend = "up"
    /\ table' \in LifecycleTables \ {table}
    /\ UNCHANGED <<pattern, global_index, backend, count_ret, rows_ret,
                   error, index_context, index_home, home_deletes, matcher, query_cache, bitmap_heap>>

LifecycleInit ==
    /\ table \in LifecycleTables
    /\ pattern \in LifecyclePatterns
    /\ FreshBackend
    /\ matcher = IdleMatcher
    /\ query_cache = init_query_cache
    /\ bitmap_heap = NoBitmaps

LifecycleNext ==
    \/ build_optimized_index
    \/ build_scan_fails
    \/ build_alloc_fails
    \/ change_table
    \/ optimized_like_query
    \/ optimized_like_query_rows

Lifecycle == LifecycleInit /\ [][LifecycleNext]_vars

(* ------------------- v12: queries through the cache -------------------- *)

CachePatterns ==
    { <<"%">>, <<"_">>, <<"a", "%">>, <<"%", "_", "b">>, <<"%", "a", "%">>,
      <<"a", "%", "b">> }

\* v12 build_optimized_index running to its end: as in v14, and
\* init_query_cache() on the new RoaringIndex.
v12_build_optimized_index ==
    /\ backend = "up"
    /\ \E freed \in MemoryContextDeleteOutcomes(index_context) :
           IF freed = "segv"
           THEN BuildCrashes /\ UNCHANGED query_cache
           ELSE /\ global_index' = BuiltIndex(table)
                /\ query_cache' = init_query_cache
                /\ index_context' = "live"
                /\ index_home' = "context"
                /\ home_deletes' = 0
                /\ error' = "none"
                /\ UNCHANGED backend
    /\ count_ret' = NoCount
    /\ rows_ret' = NoRows
    /\ UNCHANGED <<table, pattern, backend, matcher, bitmap_heap>>

\* The effect of v12's optimized_like_query_rows once optimized_query came
\* back with r.
v12_RowsReturn(r) ==
    IF r.out.status = "segv"
    THEN /\ backend' = "segv"
         /\ UNCHANGED <<rows_ret, query_cache>>
    ELSE /\ rows_ret' = [called |-> TRUE, built |-> TRUE,
                         rows |-> EmittedRows(global_index, r.out.indices)]
         /\ query_cache' = r.cache
         /\ UNCHANGED backend

\* v12: SELECT * FROM optimized_like_query_rows(pattern), run to completion.
v12_optimized_like_query_rows ==
    /\ backend = "up"
    /\ query_cache.access_counter < MaxAccesses
    /\ IF global_index = NULL_INDEX
       THEN /\ rows_ret' = [called |-> TRUE, built |-> FALSE, rows |-> <<>>]
            /\ UNCHANGED <<backend, query_cache>>
       ELSE v12_RowsReturn(v12_optimized_query(global_index, query_cache, pattern))
    /\ error' = "none"
    /\ UNCHANGED <<table, pattern, global_index, count_ret,
                   index_context, index_home, home_deletes, matcher, bitmap_heap>>

\* v12: SELECT optimized_like_clear_cache().
optimized_like_clear_cache ==
    /\ backend = "up"
    /\ query_cache' = IF global_index = NULL_INDEX THEN query_cache ELSE init_query_cache
    /\ error' = "none"
    /\ UNCHANGED <<table, pattern, global_index, backend, count_ret, rows_ret,
                   index_context, index_home, home_deletes, matcher, bitmap_heap>>

\* The session goes on to another pattern.
change_pattern ==
    /\ backend = "up"
    /\ pattern' \in CachePatterns \ {pattern}
    /\ count_ret' = NoCount
    /\ rows_ret' = NoRows
    /\ UNCHANGED <<table, global_index, backend, error, index_context, index_home,
                   home_deletes, matcher, query_cache, bitmap_heap>>

CacheInit ==
    /\ table \in LifecycleTables
    /\ pattern \in CachePatterns
    /\ FreshBackend
    /\ matcher = IdleMatcher
    /\ query_cache = init_query_cache
    /\ bitmap_heap = NoBitmaps

CacheNext ==
    \/ v12_build_optimized_index
    \/ v12_optimized_like_query_rows
    \/ optimized_like_clear_cache
    \/ change_table
    \/ change_pattern

Cache == CacheInit /\ [][CacheNext]_vars

(* --------------------- match_pattern, step by step --------------------- *)

\* The arguments of test_pattern_match: text values, which may hold the
\* bytes '%' and '_' like any other byte.
MatcherValues == StringsUpTo(PatternBytes, MaxValLen)

MatcherPatterns == StringsUpTo(PatternBytes, MaxPatLen)

\* match_pattern entered with s and p: "si = 0, pi = 0, star = -1, match = 0".
MatcherEntered(s, p) ==
    [pc |-> "while", s |-> s, p |-> p,
     si |-> 0, pi |-> 0, star |-> -1, match |-> 0, result |-> FALSE]

\* A variant of match_pattern_iteration whose backtracking branch restarts
\* at the same byte of s ("match++" left out).
match_pattern_iteration_stuck(m) ==
    IF m.pi < Len(m.p) /\ (m.p[m.pi + 1] = m.s[m.si + 1] \/ m.p[m.pi + 1] = "_")
    THEN [m EXCEPT !.si = m.si + 1, !.pi = m.pi + 1]
    ELSE IF m.pi < Len(m.p) /\ m.p[m.pi + 1] = "%"
    THEN [m EXCEPT !.star = m.pi, !.match = m.si, !.pi = m.pi + 1]
    ELSE IF m.star # -1
    THEN [m EXCEPT !.pi = m.star + 1, !.si = m.match]
    ELSE [m EXCEPT !.pc = "done", !.result = FALSE]

\* One iteration of "while (si < slen)".
match_pattern_iteration(m) ==
    IF m.pi < Len(m.p) /\ (m.p[m.pi + 1] = m.s[m.si + 1] \/ m.p[m.pi + 1] = "_")
    THEN [m EXCEPT !.si = m.si + 1, !.pi = m.pi + 1]
    ELSE IF m.pi < Len(m.p) /\ m.p[m.pi + 1] = "%"
    THEN [m EXCEPT !.star = m.pi, !.match = m.si, !.pi = m.pi + 1]
    ELSE IF m.star # -1
    THEN [m EXCEPT !.pi = m.star + 1, !.match = m.match + 1, !.si = m.match + 1]
    ELSE [m EXCEPT !.pc = "done", !.result = FALSE]

\* The test of "while (si < slen)" and, when it holds, one iteration.
match_pattern_while ==
    /\ matcher.pc = "while"
    /\ matcher' = IF matcher.si < Len(matcher.s)
                  THEN match_pattern_iteration(matcher)
                  ELSE [matcher EXCEPT !.pc = "tail"]
    /\ UNCHANGED <<index_vars, bitmap_heap>>

\* "while (pi < plen && p[pi] == '%') pi++;" one iteration at a time, then
\* "return pi == plen".
match_pattern_tail ==
    /\ matcher.pc = "tail"
    /\ matcher' = IF matcher.pi < Len(matcher.p) /\ matcher.p[matcher.pi + 1] = "%"
                  THEN [matcher EXCEPT !.pi = matcher.pi + 1]
                  ELSE [matcher EXCEPT !.pc = "done",
                                       !.result = (matcher.pi = Len(matcher.p))]
    /\ UNCHANGED <<index_vars, bitmap_heap>>

\* SELECT test_pattern_match(s, p) has just entered match_pattern.
MatcherInit ==
    /\ table = <<>>
    /\ pattern = <<>>
    /\ FreshBackend
    /\ matcher \in {MatcherEntered(s, p) : s \in MatcherValues, p \in MatcherPatterns}
    /\ query_cache = init_query_cache
    /\ bitmap_heap = NoBitmaps

MatcherNext ==
    \/ match_pattern_while
    \/ match_pattern_tail

\* The call runs on its own in a backend: a step that can be taken is taken.
Matcher == MatcherInit /\ [][MatcherNext]_vars /\ WF_vars(MatcherNext)

(* ------------------ the bitmap functions, call by call ----------------- *)

\* The values passed to roaring_add: two bits of block 0, one of block 1,
\* and one of block 16, beyond the initial capacity.
BitmapIds == {0, 1, 64, 1024}

\* The RoaringBitmap pointers the caller holds.
Handles == 1..Len(bitmap_heap.structs)

\* *h: the struct h points to, with the first num_blocks entries of the
\* array its blocks member points to.
Deref(B, h) ==
    [num_blocks |-> B.structs[h].num_blocks,
     capacity |-> B.structs[h].capacity,
     blocks |-> SubSeq(B.arrays[B.structs[h].blocks], 1, B.structs[h].num_blocks)]

\* The heap after palloc of a struct and of a block array that hold rb.
Palloc(B, rb) ==
    [structs |-> Append(B.structs, [num_blocks |-> rb.num_blocks,
                                    capacity |-> rb.capacity,
                                    blocks |-> Len(B.arrays) + 1]),
     arrays |-> Append(B.arrays, rb.blocks),
     ret |-> NoRet]

\* The heap after a call stored rb through h: the struct members, and the
\* entries 0 .. num_blocks-1 of the array h->blocks.
WriteThrough(B, h, rb) ==
    [structs |-> [B.structs EXCEPT ![h].num_blocks = rb.num_blocks,
                                   ![h].capacity = rb.capacity],
     arrays |-> [B.arrays EXCEPT ![B.structs[h].blocks] =
                    rb.blocks \o SubSeq(@, Len(rb.blocks) + 1, Len(@))],
     ret |-> NoRet]

\* A variant of CopyOnHeap that copies the struct only, so that the copy
\* points to the array of the original.
CopyStructOnly(B, h) ==
    [structs |-> Append(B.structs, B.structs[h]), arrays |-> B.arrays, ret |-> NoRet]

\* roaring_copy(h): a new struct and a new array with the blocks of *h.
CopyOnHeap(B, h) == Palloc(B, roaring_copy(Deref(B, h)))

call_roaring_create ==
    /\ Len(bitmap_heap.structs) < MaxBitmaps
    /\ bitmap_heap' = Palloc(bitmap_heap, roaring_create)
    /\ UNCHANGED <<index_vars, matcher>>

call_roaring_add ==
    /\ \E h \in Handles, value \in BitmapIds :
           bitmap_heap' = WriteThrough(bitmap_heap, h,
                                       roaring_add(Deref(bitmap_heap, h), value))
    /\ UNCHANGED <<index_vars, matcher>>

call_roaring_and ==
    /\ Len(bitmap_heap.structs) < MaxBitmaps
    /\ \E a \in Handles, b \in Handles :
           bitmap_heap' = Palloc(bitmap_heap,
                                 roaring_and(Deref(bitmap_heap, a), Deref(bitmap_heap, b)))
    /\ UNCHANGED <<index_vars, matcher>>

call_roaring_or ==
    /\ Len(bitmap_heap.structs) < MaxBitmaps
    /\ \E a \in Handles, b \in Handles :
           bitmap_heap' = Palloc(bitmap_heap,
                                 roaring_or(Deref(bitmap_heap, a), Deref(bitmap_heap, b)))
    /\ UNCHANGED <<index_vars, matcher>>

call_roaring_copy ==
    /\ Len(bitmap_heap.structs) < MaxBitmaps
    /\ \E h \in Handles : bitmap_heap' = CopyOnHeap(bitmap_heap, h)
    /\ UNCHANGED <<index_vars, matcher>>

\* roaring_to_array(h, &count): *count = roaring_count(h) and the array.
call_roaring_to_array ==
    /\ \E h \in Handles :
           bitmap_heap' = [bitmap_heap EXCEPT !.ret =
                              [h |-> h,
                               count |-> roaring_count(Deref(bitmap_heap, h)),
                               array |-> roaring_to_array(Deref(bitmap_heap, h))]]
    /\ UNCHANGED <<index_vars, matcher>>

BitmapsInit ==
    /\ table = <<>>
    /\ pattern = <<>>
    /\ FreshBackend
    /\ matcher = IdleMatcher
    /\ query_cache = init_query_cache
    /\ bitmap_heap = NoBitmaps

BitmapsNext ==
    \/ call_roaring_create
    \/ call_roaring_add
    \/ call_roaring_and
    \/ call_roaring_or
    \/ call_roaring_copy
    \/ call_roaring_to_array

Bitmaps == BitmapsInit /\ [][BitmapsNext]_vars

(* ------------------------- observations of a run ---------------------- *)

\* An index was built in this backend.
Built == global_index # NULL_INDEX

\* optimized_like_query_rows ran on a built index and returned.
RowsReturned == rows_ret.called /\ rows_ret.built

\* optimized_like_query ran on a built index and returned.
CountReturned == count_ret.called /\ ~count_ret.warning

\* The ids the rows call emitted.
ReturnedIds == {rows_ret.rows[k].RecordId : k \in 1..Len(rows_ret.rows)}

\* The ids [0, N) of the source table's rows.
RecordIds == 0..(Len(table) - 1)

\* The value of row id as LIKE sees it (NULL taken as the empty value).
ValueOf(id) == StoredValue(table[id + 1])

\* value agrees with s, at offset off, at every byte of s that is not '_'.
\* value must reach to off + Len(s).
AgreesAt(value, s, off) ==
    \A i \in 1..Len(s) : s[i] = "_" \/ value[off + i] = s[i]

PercentCount(p) == Cardinality({i \in 1..Len(p) : p[i] = "%"})

UnderscoreCount(p) == Cardinality({i \in 1..Len(p) : p[i] = "_"})

\* Pattern shapes.
IsExactPattern(p) == PercentCount(p) = 0

IsPrefixPattern(p) == Len(p) >= 2 /\ PercentCount(p) = 1 /\ p[Len(p)] = "%"

IsSuffixPattern(p) == Len(p) >= 2 /\ PercentCount(p) = 1 /\ p[1] = "%"

IsContainsPattern(p) ==
    Len(p) >= 3 /\ PercentCount(p) = 2 /\ p[1] = "%" /\ p[Len(p)] = "%"

IsWildcardPattern(p) == \A i \in 1..Len(p) : p[i] \in {"_", "%"}

IsPercentsPattern(p) == Len(p) >= 1 /\ \A i \in 1..Len(p) : p[i] = "%"

\* The maximal runs of bytes other than '%' of p, in order.
RECURSIVE RunsOf(_)
RunsOf(p) ==
    IF p = <<>> THEN <<>>
    ELSE IF Head(p) = "%" THEN RunsOf(Tail(p))
    ELSE LET stop == Min({i \in 1..(Len(p) + 1) : i = Len(p) + 1 \/ p[i] = "%"})
         IN  <<SubSeq(p, 1, stop - 1)>> \o RunsOf(SubSeq(p, stop, Len(p)))

IsMultiSlicePattern(p) == Len(RunsOf(p)) >= 2

\* value holds the runs j .. of p in order, without overlap, from offset
\* from on; the first run sits at offset 0 unless p starts with '%', the
\* last run ends the value unless p ends with '%'.
RECURSIVE PlacedInOrder(_, _, _, _)
PlacedInOrder(value, p, j, from) ==
    LET runs == RunsOf(p)
    IN  IF j > Len(runs) THEN TRUE
        ELSE \E off \in from..(Len(value) - Len(runs[j])) :
                /\ AgreesAt(value, runs[j], off)
                /\ (j = 1 /\ p[1] # "%") => off = 0
                /\ (j = Len(runs) /\ p[Len(p)] # "%") => off + Len(runs[j]) = Len(value)
                /\ PlacedInOrder(value, p, j + 1, off + Len(runs[j]))

(* -------------------------------- claims ------------------------------- *)

\* C1 (as stated): on every built index every pattern is answered, and the
\* ids optimized_query returns are exactly the ids whose value
\* match_pattern accepts.
C1_QueryEqualsScan ==
    Built =>
        /\ backend = "up"
        /\ RowsReturned =>
              ReturnedIds = {id \in RecordIds : match_pattern(ValueOf(id), pattern)}

\* C2: on a built index the count optimized_like_query returns equals the
\* number of rows optimized_like_query_rows produces for the same pattern.
C2_CountEqualsRows ==
    (Built /\ CountReturned /\ RowsReturned) => count_ret.value = Len(rows_ret.rows)

\* C2 witness: both calls returned a partial result (some rows, not all).
C2_Witness ==
    /\ Built /\ CountReturned /\ RowsReturned
    /\ Len(rows_ret.rows) = 1
    /\ Len(table) = 2

\* C3: the rows come in strictly ascending RecordId order (so each id at
\* most once), every id lies in [0, N), and each Value is data[RecordId].
C3_RowsAscending ==
    RowsReturned =>
        \A k \in 1..Len(rows_ret.rows) :
            /\ rows_ret.rows[k].RecordId \in 0..(global_index.num_records - 1)
            /\ rows_ret.rows[k].Value = global_index.data[rows_ret.rows[k].RecordId + 1]
            /\ k > 1 => rows_ret.rows[k - 1].RecordId < rows_ret.rows[k].RecordId

\* C3 witness: two rows with different values were emitted.
C3_Witness ==
    /\ RowsReturned
    /\ Len(rows_ret.rows) = 2
    /\ rows_ret.rows[1].Value # rows_ret.rows[2].Value

\* C4 (as stated): a pattern without '%' returns exactly the ids whose
\* value has the pattern's length and agrees with it at every byte that is
\* not '_'.
C4_ExactAnyLength ==
    (IsExactPattern(pattern) /\ RowsReturned) =>
        ReturnedIds = {id \in RecordIds :
                          /\ Len(ValueOf(id)) = Len(pattern)
                          /\ AgreesAt(ValueOf(id), pattern, 0)}

\* C4 (amended): the same for a pattern of at most MAX_POSITIONS bytes.
C4_ExactWithinMaxPositions ==
    (IsExactPattern(pattern) /\ Len(pattern) <= MAX_POSITIONS /\ RowsReturned) =>
        ReturnedIds = {id \in RecordIds :
                          /\ Len(ValueOf(id)) = Len(pattern)
                          /\ AgreesAt(ValueOf(id), pattern, 0)}

\* C4 witness: the exact pattern "ab" returned the row "ab" and not the
\* longer row that starts with it.
C4_Witness ==
    /\ RowsReturned
    /\ pattern = <<"a", "b">>
    /\ table = <<<<"a", "b", "b">>, <<"a", "b">>>>
    /\ ReturnedIds = {1}

\* C5 (as stated): a prefix pattern s% returns exactly the ids whose value
\* has at least len(s) bytes and agrees with s on its first len(s) bytes.
C5_PrefixExact ==
    (IsPrefixPattern(pattern) /\ RowsReturned) =>
        LET s == SubSeq(pattern, 1, Len(pattern) - 1)
        IN  ReturnedIds = {id \in RecordIds :
                              /\ Len(ValueOf(id)) >= Len(s)
                              /\ AgreesAt(ValueOf(id), s, 0)}

\* C6 (as stated): a suffix pattern %s returns exactly the ids whose value
\* has at least len(s) bytes and agrees with s on its last len(s) bytes,
\* values longer than MAX_POSITIONS included.
C6_SuffixExact ==
    (IsSuffixPattern(pattern) /\ RowsReturned) =>
        LET s == SubSeq(pattern, 2, Len(pattern))
        IN  ReturnedIds = {id \in RecordIds :
                              /\ Len(ValueOf(id)) >= Len(s)
                              /\ AgreesAt(ValueOf(id), s, Len(ValueOf(id)) - Len(s))}

\* C7 (as stated): a contains pattern %s% returns exactly the ids whose
\* value holds s as a contiguous substring, the character-anywhere
\* candidates hold every such id, and "%a%" returns char_cache['a'].
C7_ContainsExact ==
    (IsContainsPattern(pattern) /\ RowsReturned) =>
        LET s == SubSeq(pattern, 2, Len(pattern) - 1)
            holds == {id \in RecordIds :
                         \E off \in 0..(Len(ValueOf(id)) - Len(s)) :
                             AgreesAt(ValueOf(id), s, off)}
            cand == get_char_candidates(global_index, s)
        IN  /\ ReturnedIds = holds
            /\ cand # NULLBM => holds \subseteq Members(cand)
            /\ (s = <<"a">> /\ cand # NULLBM) => ReturnedIds = Members(cand)

\* C8 (as stated): a pattern of two or more slices is answered, and an id
\* is returned iff its value holds all slices in order without overlap,
\* the first at offset 0 unless the pattern starts with '%' and the last
\* flush with the end unless it ends with '%'.
C8_MultiSliceExact ==
    (IsMultiSlicePattern(pattern) /\ Built) =>
        /\ backend = "up"
        /\ RowsReturned =>
              ReturnedIds = {id \in RecordIds : PlacedInOrder(ValueOf(id), pattern, 1, 0)}

\* C9 (as stated): a pattern of k '_' and any number of '%' returns
\* exactly the ids of length k when it has no '%', and exactly the ids of
\* length >= k when it has one.
C9_WildcardsByLength ==
    (IsWildcardPattern(pattern) /\ RowsReturned) =>
        IF PercentCount(pattern) = 0
        THEN ReturnedIds = {id \in RecordIds : Len(ValueOf(id)) = UnderscoreCount(pattern)}
        ELSE ReturnedIds = {id \in RecordIds : Len(ValueOf(id)) >= UnderscoreCount(pattern)}

\* C10 (as stated): a pattern of k >= 1 '%' bytes returns exactly the ids
\* [0, N), and its count is N, whatever the corpus.
C10_PercentsReturnAll ==
    IsPercentsPattern(pattern) =>
        /\ RowsReturned => ReturnedIds = RecordIds
        /\ CountReturned => count_ret.value = Len(table)

\* C11: every returned id has a value of at least k bytes, k the number of
\* non-'%' bytes of the pattern, and of exactly k bytes when the pattern
\* has no '%'.
C11_ReturnedLongEnough ==
    RowsReturned =>
        \A id \in ReturnedIds :
            /\ Len(ValueOf(id)) >= Len(pattern) - PercentCount(pattern)
            /\ PercentCount(pattern) = 0 => Len(ValueOf(id)) = Len(pattern)

\* C11 witness: "a_%" returned the row "ab" and left out the row "a",
\* which agrees with the pattern on every byte it has.
C11_Witness ==
    /\ RowsReturned
    /\ pattern = <<"a", "_", "%">>
    /\ table = <<<<"a">>, <<"a", "b">>>>
    /\ ReturnedIds = {1}

IndexComplete(G) == G = BuiltIndex(G.data)

\* C13: a build that fails on an allocation after the rows were read
\* leaves global_index as it was, and what it points to stays allocated.
C13_AllocationFailureKeepsIndex ==
    [][error' = "out of memory" => global_index' = global_index /\ ~Dangling']_vars

ScanErrors == {"SPI_connect failed", "Query failed"}

\* C14: a build whose source scan fails reports the error and leaves
\* global_index (with every bitmap in it) and index_context as they were.
C14_ScanFailureKeepsIndex ==
    [][error' \in ScanErrors =>
          /\ global_index' = global_index
          /\ index_context' = index_context
          /\ index_home' = index_home
          /\ home_deletes' = home_deletes]_vars

\* C14 witness: the build over the rows "a", "ab" failed in its scan and
\* the live index is still the one built over the single row "a".
C14_Witness ==
    /\ error = "Query failed"
    /\ table = <<<<"a">>, <<"a", "b">>>>
    /\ global_index = BuiltIndex(<<<<"a">>>>)
    /\ index_context = "live"
    /\ ~Dangling

\* C15: the index a query reads is completely constructed.
C15_QueriesReadCompleteIndex ==
    (global_index # NULL_INDEX /\ (count_ret.called \/ rows_ret.called))
        => IndexComplete(global_index)

\* C16: when a build runs to its end after an earlier build did, the index
\* is the one of the table's present rows and the arena of the earlier
\* index has been deleted exactly once.
C16_RebuildReplacesOnce ==
    [][(/\ global_index # NULL_INDEX
        /\ IndexComplete(global_index)
        /\ build_optimized_index
        /\ backend' = "up")
          => /\ global_index' = BuiltIndex(table')
             /\ DeletesAfterBuildStart = 1]_vars

\* min_length of the pattern: its number of non-'%' bytes.
MinLength == Len(pattern) - PercentCount(pattern)

InIndexedPart(value, c) ==
    \E i \in 1..Min({Len(value), MAX_POSITIONS}) : value[i] = c

\* The ids a %s% pattern longer than MAX_POSITIONS returns: the rows that
\* contain s and have every literal byte of s in their indexed part.
LongContainsIds ==
    {id \in RecordIds :
        /\ Like(ValueOf(id), pattern)
        /\ \A i \in 1..Len(pattern) :
               pattern[i] \in Alphabet => InIndexedPart(ValueOf(id), pattern[i])}

MatcherDone == matcher.pc = "done"

\* p without the '%' that directly follow a '%'.
RECURSIVE CollapsePercents(_)
CollapsePercents(p) ==
    IF Len(p) < 2 THEN p
    ELSE IF p[1] = "%" /\ p[2] = "%" THEN CollapsePercents(Tail(p))
    ELSE <<p[1]>> \o CollapsePercents(Tail(p))

\* C18: match_pattern(v, P) is true iff v matches P under LIKE semantics;
\* a run of '%' behaves as a single '%'; match_pattern(v, s%) holds iff v
\* has at least len(s) bytes and agrees with s at each non-'_' position of
\* its first len(s) bytes, and symmetrically for %s at the end of v.
C18_MatchPatternIsLike ==
    MatcherDone =>
        /\ matcher.result = Like(matcher.s, matcher.p)
        /\ matcher.result = match_pattern(matcher.s, CollapsePercents(matcher.p))
        /\ IsPrefixPattern(matcher.p) =>
               matcher.result =
                   (/\ Len(matcher.s) >= Len(matcher.p) - 1
                    /\ AgreesAt(matcher.s, SubSeq(matcher.p, 1, Len(matcher.p) - 1), 0))
        /\ IsSuffixPattern(matcher.p) =>
               matcher.result =
                   (/\ Len(matcher.s) >= Len(matcher.p) - 1
                    /\ AgreesAt(matcher.s, Tail(matcher.p),
                                       Len(matcher.s) - (Len(matcher.p) - 1)))

\* The locals of match_pattern index its arguments within their bytes.
MatcherInBounds ==
    /\ matcher.si \in 0..Len(matcher.s)
    /\ matcher.pi \in 0..Len(matcher.p)
    /\ matcher.star \in -1..(Len(matcher.p) - 1)
    /\ matcher.match \in 0..Len(matcher.s)

\* C19: match_pattern reads its arguments within their bounds until it
\* returns, and it does return, with a boolean.
C19_MatchPatternTerminates ==
    /\ [](MatcherInBounds /\ matcher.result \in BOOLEAN)
    /\ <>MatcherDone

\* C19 witness: matching "aab" against "%ab" has returned TRUE after the
\* backtracking branch moved the restart position.
C19_Witness ==
    /\ MatcherDone
    /\ matcher.s = <<"a", "a", "b">>
    /\ matcher.p = <<"%", "a", "b">>
    /\ matcher.match > 0
    /\ matcher.result = TRUE

\* The ids of the rows the last rows query emitted, in the order emitted.
ReturnedIdSeq == [k \in 1..Len(rows_ret.rows) |-> rows_ret.rows[k].RecordId]

\* The ids v12's optimized_query computes for pattern p on the present
\* index when there is no cache.
WithoutCache(p) == v12_UncachedQuery(global_index, p, analyze_pattern(p)).indices

\* C20: with the v12 cache, a query returns the ids it would return
\* without it, and every cached result is the one the present index gives
\* for its pattern (none survives a rebuild).
C20_CacheTransparent ==
    /\ RowsReturned => ReturnedIdSeq = WithoutCache(pattern)
    /\ global_index # NULL_INDEX =>
           \A i \in 1..Len(query_cache.entries) :
               query_cache.entries[i].results = WithoutCache(query_cache.entries[i].pattern)

\* C20 witness: "a%" was answered from the cache (three accesses for two
\* entries) while "%_b", which shares its bucket, is cached too.
C20_Witness ==
    /\ RowsReturned
    /\ pattern = <<"a", "%">>
    /\ table = <<<<"a", "b">>, <<"a">>>>
    /\ global_index = BuiltIndex(table)
    /\ ReturnedIdSeq = <<0, 1>>
    /\ Len(query_cache.entries) = 2
    /\ query_cache.access_counter = 3
    /\ \E i \in 1..2 : query_cache.entries[i].pattern = <<"%", "_", "b">>


(* ------------------- contents of the built index ----------------------- *)

\* The ids of a bitmap pointer, none for NULL.
IdsOf(bm) == IF bm = NULLBM THEN {} ELSE Members(bm)

\* The offsets a position entry may have.
IndexedOffsets == 0..(MAX_POSITIONS - 1)

\* Every entry of the CharIndex entries has a non-empty bitmap, an offset
\* the sign maps into IndexedOffsets, and no second entry of its offset.
EntriesWellFormed(entries, sign) ==
    \A i \in 1..Len(entries) :
        /\ ~roaring_is_empty(entries[i].bitmap)
        /\ (IF sign > 0 THEN entries[i].pos ELSE -(1 + entries[i].pos)) \in IndexedOffsets
        /\ \A k \in 1..Len(entries) : entries[k].pos = entries[i].pos => k = i

\* C21: after a successful build, id is in the forward bitmap of (c, p) iff
\* value(id)[p] = c, and in the reverse bitmap of (c, j), stored under
\* offset -(1+j), iff value(id)[len(value(id))-1-j] = c, for every corpus,
\* values longer than MAX_POSITIONS included; an entry exists only if its
\* set is not empty, and no entry has an offset >= MAX_POSITIONS.
C21_PositionBitmapsExact ==
    Built =>
        /\ \A id \in RecordIds, c \in Alphabet, p \in IndexedOffsets :
               /\ id \in IdsOf(get_pos_bitmap(global_index, c, p))
                      <=> CharAt(ValueOf(id), p) = c
               /\ id \in IdsOf(get_neg_bitmap(global_index, c, -(1 + p)))
                      <=> (/\ p < Len(ValueOf(id))
                           /\ CharAt(ValueOf(id), Len(ValueOf(id)) - 1 - p) = c)
        /\ \A c \in Alphabet :
               /\ EntriesWellFormed(global_index.pos_idx[c], 1)
               /\ EntriesWellFormed(global_index.neg_idx[c], -1)

\* The ids of length_bitmaps[k], none for a slot that is NULL or missing.
LengthIds(G, k) ==
    IF k < G.length_idx.max_length THEN IdsOf(G.length_idx.length_bitmaps[k + 1]) ELSE {}

\* C22: after a successful build every record id belongs to exactly one
\* length bitmap, the one of len(value(id)) (a NULL value has length 0),
\* for every corpus, values longer than MAX_POSITIONS included.
C22_LengthBitmapsPartition ==
    Built =>
        \A id \in RecordIds, k \in 0..MaxValLen :
            id \in LengthIds(global_index, k) <=> Len(ValueOf(id)) = k

\* The union of the forward bitmaps of c over all its entries.
ForwardUnion(G, c) ==
    UNION {IdsOf(G.pos_idx[c][i].bitmap) : i \in 1..Len(G.pos_idx[c])}

\* C23: after a successful build char_cache[c] is the union of the forward
\* bitmaps of c, which is the set of records whose value contains c at
\* least once; char_cache[c] is absent iff no record has c at an indexed
\* offset.
C23_CharCacheIsContains ==
    Built =>
        \A c \in Alphabet :
            /\ IdsOf(global_index.char_cache[c]) = ForwardUnion(global_index, c)
            /\ IdsOf(global_index.char_cache[c])
                   = {id \in RecordIds : \E p \in 0..(Len(ValueOf(id)) - 1) :
                                             CharAt(ValueOf(id), p) = c}
            /\ global_index.char_cache[c] = NULLBM
                   <=> \A id \in RecordIds, p \in IndexedOffsets : CharAt(ValueOf(id), p) # c


(* --------------------------- NULL operands ----------------------------- *)

\* C24: for every pattern, also one with an underscore-only slice among
\* several ("_%a", "a%_"), optimized_query hands no NULL bitmap to
\* roaring_is_empty, roaring_and or roaring_to_array: the call comes back
\* and the backend stays up.
C24_NoNullOperand ==
    /\ backend = "up"
    /\ Built => optimized_query(global_index, pattern).status = "ok"


(* ------------------------ the bitmap functions ------------------------- *)

\* The bitmaps the caller holds.
HeapBitmaps == {Deref(bitmap_heap, h) : h \in Handles}

\* The handles whose bitmap a step has changed.
ChangedHandles == {h \in Handles : Deref(bitmap_heap', h) # Deref(bitmap_heap, h)}

\* C28: roaring_and(a, b) and roaring_or(a, b) return a new bitmap whose
\* members are the intersection, respectively the union, of the members of
\* a and b, for all a and b, empty ones and ones of different num_blocks
\* included; both are commutative and associative, and the call leaves a
\* and b as they were.
C28_AndOrAreSetOperations ==
    /\ [](\A a \in HeapBitmaps, b \in HeapBitmaps :
            /\ Members(roaring_and(a, b)) = Members(a) \cap Members(b)
            /\ Members(roaring_or(a, b)) = Members(a) \cup Members(b)
            /\ Members(roaring_and(a, b)) = Members(roaring_and(b, a))
            /\ Members(roaring_or(a, b)) = Members(roaring_or(b, a))
            /\ \A c \in HeapBitmaps :
                   /\ Members(roaring_and(roaring_and(a, b), c))
                          = Members(roaring_and(a, roaring_and(b, c)))
                   /\ Members(roaring_or(roaring_or(a, b), c))
                          = Members(roaring_or(a, roaring_or(b, c))))
    /\ [][Len(bitmap_heap'.structs) > Len(bitmap_heap.structs) => ChangedHandles = {}]_vars

\* roaring_and has returned r for two operands a and b of different
\* num_blocks, and r is not empty.
C28_Witness ==
    \E a \in Handles, b \in Handles, r \in Handles :
        /\ r \notin {a, b}
        /\ Deref(bitmap_heap, a).num_blocks > Deref(bitmap_heap, b).num_blocks
        /\ Deref(bitmap_heap, b).num_blocks > 0
        /\ Deref(bitmap_heap, r) = roaring_and(Deref(bitmap_heap, a), Deref(bitmap_heap, b))
        /\ Members(Deref(bitmap_heap, r)) # {}
        /\ Members(Deref(bitmap_heap, r)) # Members(Deref(bitmap_heap, a))

\* The ids of S in ascending order.
RECURSIVE AscendingIds(_)
AscendingIds(S) ==
    IF S = {} THEN <<>> ELSE <<Min(S)>> \o AscendingIds(S \ {Min(S)})

\* C29: roaring_add(b, x) makes x a member and a second roaring_add(b, x)
\* changes neither the members nor roaring_count(b); roaring_copy(a) has
\* the members of a, and a later roaring_add on the copy or on a does not
\* change the other; roaring_count is the number of distinct members and
\* roaring_to_array lists each member once, in ascending order.
C29_AddCopyCountToArray ==
    /\ [](/\ \A b \in HeapBitmaps :
               /\ \A x \in BitmapIds :
                      /\ Members(roaring_add(b, x)) = Members(b) \cup {x}
                      /\ Members(roaring_add(roaring_add(b, x), x)) = Members(roaring_add(b, x))
                      /\ roaring_count(roaring_add(roaring_add(b, x), x))
                             = roaring_count(roaring_add(b, x))
               /\ Members(roaring_copy(b)) = Members(b)
               /\ roaring_count(b) = Cardinality(Members(b))
               /\ roaring_to_array(b) = AscendingIds(Members(b))
          /\ bitmap_heap.ret.h # 0 =>
               /\ bitmap_heap.ret.count
                      = Cardinality(Members(Deref(bitmap_heap, bitmap_heap.ret.h)))
               /\ bitmap_heap.ret.array
                      = AscendingIds(Members(Deref(bitmap_heap, bitmap_heap.ret.h))))
    /\ [][Cardinality(ChangedHandles) <= 1]_vars

\* A copy of the bitmap {0} got 64 and 1024 added, the original still is
\* {0}, and roaring_to_array has listed the copy.
C29_Witness ==
    \E a \in Handles, c \in Handles :
        /\ Members(Deref(bitmap_heap, a)) = {0}
        /\ Deref(bitmap_heap, a).capacity = INIT_CAPACITY
        /\ Members(Deref(bitmap_heap, c)) = {0, 64, 1024}
        /\ bitmap_heap.ret = [h |-> c, count |-> 3, array |-> <<0, 64, 1024>>]


(* --------------------------- pattern analysis -------------------------- *)

\* The slices joined with one '%' between two of them.
RECURSIVE JoinSlices(_)
JoinSlices(slices) ==
    IF slices = <<>> THEN <<>>
    ELSE IF Len(slices) = 1 THEN slices[1]
    ELSE slices[1] \o <<"%">> \o JoinSlices(Tail(slices))

\* The pattern a PatternInfo stands for: the joined slices with the anchor
\* '%' in front and behind.
PatternOf(info) ==
    (IF info.starts_with_percent THEN <<"%">> ELSE <<>>)
        \o JoinSlices(info.slices)
        \o (IF info.ends_with_percent THEN <<"%">> ELSE <<>>)

\* The sum of the lengths of the slices.
RECURSIVE TotalLength(_)
TotalLength(slices) ==
    IF slices = <<>> THEN 0 ELSE Len(Head(slices)) + TotalLength(Tail(slices))

\* C30: analyze_pattern(P) returns the maximal runs of bytes other than '%'
\* of P, in order, empty runs dropped and '_' kept; starts_with_percent and
\* ends_with_percent tell whether the first and the last byte of P is '%';
\* the slices together have as many bytes as P has bytes other than '%';
\* and the joined slices with the anchor '%' are P up to the length of its
\* runs of '%'.
C30_AnalyzePatternSplits ==
    /\ analyze_pattern(pattern).slices = RunsOf(pattern)
    /\ analyze_pattern(pattern).slice_count = Len(RunsOf(pattern))
    /\ \A i \in 1..Len(analyze_pattern(pattern).slices) :
           /\ analyze_pattern(pattern).slices[i] # <<>>
           /\ \A k \in 1..Len(analyze_pattern(pattern).slices[i]) :
                  analyze_pattern(pattern).slices[i][k] # "%"
    /\ analyze_pattern(pattern).starts_with_percent
           <=> (pattern # <<>> /\ pattern[1] = "%")
    /\ analyze_pattern(pattern).ends_with_percent
           <=> (pattern # <<>> /\ pattern[Len(pattern)] = "%")
    /\ TotalLength(analyze_pattern(pattern).slices) = pattern_length_with_underscores(pattern)
    /\ TotalLength(analyze_pattern(pattern).slices) = MinLength
    /\ CollapsePercents(PatternOf(analyze_pattern(pattern))) = CollapsePercents(pattern)

\* The query for '%a__b%a' has returned: analyze_pattern cut it into the
\* slices 'a__b' and 'a'.
C30_Witness ==
    /\ RowsReturned
    /\ pattern = <<"%", "a", "_", "_", "b", "%", "a">>
    /\ analyze_pattern(pattern).slices = << <<"a", "_", "_", "b">>, <<"a">> >>
    /\ analyze_pattern(pattern).starts_with_percent
    /\ ~analyze_pattern(pattern).ends_with_percent

(* ------------------------ the bitmaps of a query ----------------------- *)

\* optimized_query on the index and the pattern of this state, with the
\* short-circuits compiled in (sc) or left out.
TracedQuery(sc) == optimized_query_mem(global_index, pattern, sc)

\* The ids of a call that returned.
IdSet(out) == {out.indices[k] : k \in 1..Len(out.indices)}

\* Two calls end the same way: both return, and the same ids.
SameAnswer(a, b) == a.status = "ok" /\ b.status = "ok" /\ IdSet(a) = IdSet(b)

\* C25: on every built index and for every pattern, optimized_query with
\* the returns on an empty intermediate bitmap left out returns the same
\* id set as with them, and neither ends in an error.
C25_ShortCircuitsAreTransparent ==
    Built => SameAnswer(TracedQuery(TRUE), TracedQuery(FALSE))

\* What a call did to bitmaps the index owns.
IndexFaults == {"index bitmap written", "index bitmap freed"}

\* C26: optimized_query leaves the published index as it was: no call
\* writes to or frees a bitmap of the index (it works on copies), no step
\* in which a query function returns changes global_index, and the rows a
\* query returned are the rows the same query returns on the index as it
\* is afterwards.
C26_QueryLeavesIndex ==
    /\ [](Built => TracedQuery(TRUE).H.faults \cap IndexFaults = {})
    /\ [](RowsReturned => ReturnedIdSeq = TracedQuery(TRUE).indices)
    /\ [][((rows_ret'.called /\ ~rows_ret.called) \/ (count_ret'.called /\ ~count_ret.called))
              => global_index' = global_index]_vars

C26_Witness ==
    /\ RowsReturned
    /\ pattern = <<"a", "%", "b">>
    /\ table = <<<<"a", "b">>, <<"b">>>>
    /\ global_index = BuiltIndex(table)
    /\ ReturnedIdSeq = <<0>>
    /\ TracedQuery(TRUE).H.n >= 6

\* C27: whenever optimized_query returns -- at its end, early on an empty
\* intermediate bitmap, or for absent candidates -- every bitmap the call
\* created has been freed, none was freed twice or used after its free, and
\* no bitmap of the index was freed.
C27_IntermediatesFreedOnce ==
    (Built /\ TracedQuery(TRUE).status = "ok") =>
        /\ TracedQuery(TRUE).H.live = {}
        /\ TracedQuery(TRUE).H.faults = {}

C27_Witness ==
    /\ RowsReturned
    /\ pattern = <<"%", "a", "%", "b">>
    /\ table = <<<<"a", "b">>, <<"b", "a">>>>
    /\ global_index = BuiltIndex(table)
    /\ ReturnedIdSeq = <<0>>
    /\ TracedQuery(TRUE).H.n >= 8
    /\ TracedQuery(TRUE).H.live = {}

=============================================================================
